---- MODULE Spec2Model ----
(***************************************************************************)
(* A model of the Bitrix24 -> Telegram webhook bridge: the identity store  *)
(* (user_mapping.py), the filter predicates and the payload normalizer     *)
(* (app.py), the notification renderer (telegram_bot.py) and the webhook   *)
(* handler that strings them together (app.py, webhook_tasks).             *)
(*                                                                         *)
(* Python values are tagged records [t, v]; a Python str is a sequence of  *)
(* one-character atoms, so that str(), lower(), "in" and replace() are     *)
(* computed rather than assumed.  Cyrillic letters are the atoms "cyr_x".  *)
(***************************************************************************)
EXTENDS Integers, Sequences, FiniteSets, TLC

VARIABLES
  file,             \* user_mappings.json: [kind: "missing" | "json" | "garbage", doc]
  adm,              \* the last store operation run from manage_mappings.py and its result
  nadm,             \* number of store operations run so far
  procs,            \* store operations running at the same time, step by step:
                    \* [pc, op, uid, chat, doc, partial, after, ret] per process
  cfg,              \* Config: [domain, token, bot_token]
  pc,               \* where the webhook handler stands
  req,              \* the request being handled
  webhook_data,     \* the handler's locals, None until assigned
  task_id,
  auth_data,
  attempts,         \* the CRM calls get_task_from_bitrix24 made: [method, kind]
  full_task_data,
  task_data,
  telegram_chat_id,
  calls,            \* the calls the handler has made in this invocation, in order
  posts,            \* the POSTs made to the Telegram API in this invocation
  resp,             \* the response: [status, message]
  fin,              \* a function under test and its arguments
  fout              \* its result

(***************************************************************************)
(* Python values                                                           *)
(***************************************************************************)
Str(s) == [t |-> "str", v |-> s]
Num(n) == [t |-> "num", v |-> n]
Map(m) == [t |-> "map", v |-> m]
List(l) == [t |-> "list", v |-> l]
Bool(b) == [t |-> "bool", v |-> b]
None == [t |-> "none", v |-> 0]
FloatInf == [t |-> "float", v |-> "inf"]
EmptyStr == Str(<<>>)
EmptyMap == Map(<<>>)

\* bool(x): the truth value Python gives a value in "if x", "x or y", "not x"
Truthy(x) ==
  CASE x.t = "str" -> x.v # <<>>
    [] x.t = "num" -> x.v # 0
    [] x.t = "map" -> DOMAIN x.v # {}
    [] x.t = "list" -> x.v # <<>>
    [] x.t = "bool" -> x.v
    [] x.t = "none" -> FALSE
    [] OTHER -> TRUE

\* a or b
Or(a, b) == IF Truthy(a) THEN a ELSE b

\* d.get(k) on a dict d (the untagged function): None when the key is absent
Get(d, k) == IF k \in DOMAIN d THEN d[k] ELSE None

\* d.get(k, default)
GetD(d, k, default) == IF k \in DOMAIN d THEN d[k] ELSE default

Digit(n) ==
  CASE n = 0 -> "0" [] n = 1 -> "1" [] n = 2 -> "2" [] n = 3 -> "3"
    [] n = 4 -> "4" [] n = 5 -> "5" [] n = 6 -> "6" [] n = 7 -> "7"
    [] n = 8 -> "8" [] n = 9 -> "9"

RECURSIVE DecStr(_)
\* str(n) of a non-negative int: its decimal digits
DecStr(n) == IF n < 10 THEN <<Digit(n)>> ELSE DecStr(n \div 10) \o <<Digit(n % 10)>>

\* str(x)
PyStr(x) ==
  CASE x.t = "str" -> x.v
    [] x.t = "num" -> IF x.v < 0 THEN <<"-">> \o DecStr(0 - x.v) ELSE DecStr(x.v)
    [] x.t = "bool" -> IF x.v THEN <<"T", "r", "u", "e">> ELSE <<"F", "a", "l", "s", "e">>
    [] x.t = "none" -> <<"N", "o", "n", "e">>
    [] x.t = "float" -> <<"i", "n", "f">>
    [] OTHER -> <<"{", "}">>

(***************************************************************************)
(* Python str and int operations                                           *)
(***************************************************************************)
UpperChars ==
  <<"A", "B", "C", "D", "E", "F", "G", "H", "I", "J", "K", "L", "M", "N", "O", "P", "Q",
    "R", "S", "T", "U", "V", "W", "X", "Y", "Z", "CYR_V", "CYR_A", "CYR_ZH", "CYR_N", "CYR_O">>

LowerChars ==
  <<"a", "b", "c", "d", "e", "f", "g", "h", "i", "j", "k", "l", "m", "n", "o", "p", "q",
    "r", "s", "t", "u", "v", "w", "x", "y", "z", "cyr_v", "cyr_a", "cyr_zh", "cyr_n", "cyr_o">>

LowerChar(c) ==
  IF \E i \in 1..Len(UpperChars) : UpperChars[i] = c
  THEN LowerChars[CHOOSE i \in 1..Len(UpperChars) : UpperChars[i] = c]
  ELSE c

\* s.lower()
Lower(s) == [i \in 1..Len(s) |-> LowerChar(s[i])]

\* sub in s (substring test on str)
Contains(s, sub) ==
  \E i \in 0..(Len(s) - Len(sub)) : SubSeq(s, i + 1, i + Len(sub)) = sub

DigitChars == {"0", "1", "2", "3", "4", "5", "6", "7", "8", "9"}

DigitVal(c) ==
  CASE c = "0" -> 0 [] c = "1" -> 1 [] c = "2" -> 2 [] c = "3" -> 3 [] c = "4" -> 4
    [] c = "5" -> 5 [] c = "6" -> 6 [] c = "7" -> 7 [] c = "8" -> 8 [] c = "9" -> 9

RECURSIVE DecVal(_)
DecVal(s) == IF s = <<>> THEN 0 ELSE 10 * DecVal(SubSeq(s, 1, Len(s) - 1)) + DigitVal(s[Len(s)])

\* s.strip() for the blank " "
RECURSIVE Strip(_)
Strip(s) ==
  IF s # <<>> /\ s[1] = " " THEN Strip(Tail(s))
  ELSE IF s # <<>> /\ s[Len(s)] = " " THEN Strip(SubSeq(s, 1, Len(s) - 1))
  ELSE s

AllDigits(s) == s # <<>> /\ \A i \in 1..Len(s) : s[i] \in DigitChars

Ok(n) == [exc |-> "none", val |-> n]
Raise(e) == [exc |-> e, val |-> 0]

\* int(str): optional blanks, optional sign, decimal digits; anything else ValueError
IntOfStr(s) ==
  IF AllDigits(Strip(s)) THEN Ok(DecVal(Strip(s)))
  ELSE IF Strip(s) # <<>> /\ Strip(s)[1] \in {"-", "+"} /\ AllDigits(Tail(Strip(s)))
       THEN Ok((IF Strip(s)[1] = "-" THEN -1 ELSE 1) * DecVal(Tail(Strip(s))))
       ELSE Raise("ValueError")

\* int(x): what it returns or the exception it raises
PyInt(x) ==
  CASE x.t = "str" -> IntOfStr(x.v)
    [] x.t = "num" -> Ok(x.v)
    [] x.t = "bool" -> Ok(IF x.v THEN 1 ELSE 0)
    [] x.t = "float" -> Raise("OverflowError")
    [] OTHER -> Raise("TypeError")

(***************************************************************************)
(* Filter predicates: app.py                                               *)
(***************************************************************************)
\* Config.URGENT_PRIORITY_THRESHOLD and Config.URGENT_DEADLINE_HOURS (defaults)
URGENT_PRIORITY_THRESHOLD == 2
URGENT_DEADLINE_HOURS == 24

W_important == <<"i", "m", "p", "o", "r", "t", "a", "n", "t">>
W_vazhno == <<"cyr_v", "cyr_a", "cyr_zh", "cyr_n", "cyr_o">>

\* ["1", "true", "yes", "важно", "important", "y"]
ImportantTokens ==
  { <<"1">>, <<"t", "r", "u", "e">>, <<"y", "e", "s">>, W_vazhno, W_important, <<"y">> }

\* task_data.get(k1) or task_data.get(k2) or task_data.get(k3) or ""
Probe3(d, k1, k2, k3) == Or(Or(Or(Get(d, k1), Get(d, k2)), Get(d, k3)), EmptyStr)

\* task.get(k1) or task.get(k2) or ""
Probe2(d, k1, k2) == Or(Or(Get(d, k1), Get(d, k2)), EmptyStr)

\* int(priority) if priority else 0
PriorityInt(priority) == IF Truthy(priority) THEN PyInt(priority) ELSE Ok(0)

\* the status text test of is_task_important
StatusSaysImportant(status) ==
  /\ status.t = "str"
  /\ \/ Contains(Lower(status.v), W_important)
     \/ Contains(Lower(status.v), W_vazhno)

\* the IMPORTANT field test
FlagSaysImportant(important) ==
  Truthy(important) /\ Lower(PyStr(important)) \in ImportantTokens

\* the isImportant field test
IsImportantSaysImportant(is_important) ==
  /\ Truthy(is_important)
  /\ \/ is_important.t = "bool" /\ is_important.v
     \/ Lower(PyStr(is_important)) \in ImportantTokens

\* the STATUS_ID test
StatusIdSaysImportant(status_id) ==
  Truthy(status_id) /\ PyStr(status_id) \in { <<"2">>, <<"3">> }

\* the last test: status 2 (in progress) with priority >= 2; int() may raise
InProgressHighPriority(status, status_id, priority) ==
  IF PyStr(status) = <<"2">> \/ PyStr(status_id) = <<"2">>
  THEN IF PriorityInt(priority).exc = "none" THEN Ok(PriorityInt(priority).val >= 2)
       ELSE IF PriorityInt(priority).exc \in {"ValueError", "TypeError"} THEN Ok(FALSE)
       ELSE Raise(PriorityInt(priority).exc)
  ELSE Ok(FALSE)

IsTaskImportantNoFlag(d) ==
  IF \/ StatusSaysImportant(Probe3(d, "STATUS", "status", "Status"))
     \/ StatusIdSaysImportant(Probe3(d, "STATUS_ID", "statusId", "status_id"))
  THEN Ok(TRUE)
  ELSE InProgressHighPriority(Probe3(d, "STATUS", "status", "Status"),
                              Probe3(d, "STATUS_ID", "statusId", "status_id"),
                              Probe3(d, "PRIORITY", "priority", "Priority"))

\* is_task_important(task_data): Ok(bool), or the exception that escapes
IsTaskImportant(d) ==
  IF \/ StatusSaysImportant(Probe3(d, "STATUS", "status", "Status"))
     \/ FlagSaysImportant(Probe3(d, "IMPORTANT", "important", "Important"))
     \/ IsImportantSaysImportant(Probe3(d, "isImportant", "IS_IMPORTANT", "is_important"))
     \/ StatusIdSaysImportant(Probe3(d, "STATUS_ID", "statusId", "status_id"))
  THEN Ok(TRUE)
  ELSE InProgressHighPriority(Probe3(d, "STATUS", "status", "Status"),
                              Probe3(d, "STATUS_ID", "statusId", "status_id"),
                              Probe3(d, "PRIORITY", "priority", "Priority"))

\* A date text is written as one atom naming its layout followed by the decimal
\* digits of the instant it denotes, in seconds.
DateFormats ==
  << "%Y-%m-%d %H:%M:%S", "%Y-%m-%dT%H:%M:%S", "%Y-%m-%dT%H:%M:%SZ",
     "%Y-%m-%d", "%d.%m.%Y %H:%M:%S", "%d.%m.%Y" >>

\* datetime.strptime(s, fmt): the instant, or ValueError
Strptime(s, fmt) ==
  IF s # <<>> /\ s[1] = fmt /\ AllDigits(Tail(s)) THEN Ok(DecVal(Tail(s)))
  ELSE Raise("ValueError")

\* the loop over date_formats: the first format that parses, else None (Raise)
ParseDeadline(s) ==
  IF \E i \in 1..Len(DateFormats) : Strptime(s, DateFormats[i]).exc = "none"
  THEN Strptime(s, DateFormats[CHOOSE i \in 1..Len(DateFormats) :
                     /\ Strptime(s, DateFormats[i]).exc = "none"
                     /\ \A j \in 1..(i - 1) : Strptime(s, DateFormats[j]).exc # "none"])
  ELSE Raise("ValueError")

\* the deadline half of is_task_urgent: 0 <= seconds / 3600 <= URGENT_DEADLINE_HOURS
DeadlineUrgent(deadline, now) ==
  /\ Truthy(deadline)
  /\ ParseDeadline(PyStr(deadline)).exc = "none"
  /\ 0 <= ParseDeadline(PyStr(deadline)).val - now
  /\ ParseDeadline(PyStr(deadline)).val - now <= URGENT_DEADLINE_HOURS * 3600

\* is_task_urgent(task_data) at the instant now: Ok(bool), or the exception that escapes
IsTaskUrgent(d, now) ==
  IF PriorityInt(Probe3(d, "PRIORITY", "priority", "Priority")).exc = "none"
  THEN IF PriorityInt(Probe3(d, "PRIORITY", "priority", "Priority")).val
            >= URGENT_PRIORITY_THRESHOLD
       THEN Ok(TRUE)
       ELSE Ok(DeadlineUrgent(Probe3(d, "DEADLINE", "deadline", "Deadline"), now))
  ELSE IF PriorityInt(Probe3(d, "PRIORITY", "priority", "Priority")).exc
            \in {"ValueError", "TypeError"}
       THEN Ok(DeadlineUrgent(Probe3(d, "DEADLINE", "deadline", "Deadline"), now))
       ELSE Raise(PriorityInt(Probe3(d, "PRIORITY", "priority", "Priority")).exc)

(***************************************************************************)
(* Payload normalizer: app.py, extract_task_data                           *)
(***************************************************************************)
W_undefined == <<"u", "n", "d", "e", "f", "i", "n", "e", "d">>
\* "Без названия"; text in Cyrillic is written as one atom per run
NoTitle == <<"cyr:Bez nazvaniya">>

\* x == "undefined"
IsUndefined(x) == x.t = "str" /\ x.v = W_undefined

\* isinstance(task, str) and task.lower() == "undefined"
IsUndefinedAnyCase(x) == x.t = "str" /\ Lower(x.v) = W_undefined

\* s.replace(a, ""), for a text a written as one atom
RemoveAtom(s, a) == SelectSeq(s, LAMBDA c : c # a)

\* the name and id taken from a nested "responsible" / "creator" object
NestedName(task, key, name) ==
  IF ~Truthy(name) /\ key \in DOMAIN task /\ task[key].t = "map"
  THEN GetD(task[key].v, "name", EmptyStr)
  ELSE name

NestedId(task, key, name, id) ==
  IF ~Truthy(name) /\ key \in DOMAIN task /\ task[key].t = "map" /\ ~Truthy(id)
  THEN GetD(task[key].v, "id", EmptyStr)
  ELSE id

\* the deep link; domain is Config.BITRIX24_DOMAIN
TaskLink(domain, responsible_id, tid) ==
  IF domain # <<>>
  THEN <<"https://">> \o RemoveAtom(RemoveAtom(domain, "https://"), "http://")
         \o <<"/company/personal/user/">> \o PyStr(responsible_id)
         \o <<"/tasks/task/view/">> \o PyStr(tid) \o <<"/">>
  ELSE <<"#", "t", "a", "s", "k", "_">> \o PyStr(tid)

\* the record built from the task dict (lines 331-412)
TaskRecord(task, domain, responsible_id, responsible_name, creator_id, creator_name) ==
  [ id |-> PyStr(Probe2(task, "ID", "id")),
    title |-> IF Truthy(Probe2(task, "TITLE", "title"))
              THEN PyStr(Probe2(task, "TITLE", "title")) ELSE NoTitle,
    priority |-> PyStr(Probe2(task, "PRIORITY", "priority")),
    deadline |-> IF Truthy(Probe2(task, "DEADLINE", "deadline"))
                 THEN PyStr(Probe2(task, "DEADLINE", "deadline")) ELSE <<>>,
    responsible_id |-> PyStr(responsible_id),
    responsible_name |-> IF Truthy(responsible_name) THEN PyStr(responsible_name)
                         ELSE PyStr(responsible_id),
    creator_id |-> PyStr(creator_id),
    creator_name |-> IF Truthy(creator_name) THEN PyStr(creator_name) ELSE PyStr(creator_id),
    status |-> PyStr(Probe2(task, "STATUS", "status")),
    link |-> TaskLink(domain, responsible_id, Probe2(task, "ID", "id")),
    raw_data |-> Map(task) ]

ExtractFields(task, domain) ==
  TaskRecord(task, domain,
    NestedId(task, "responsible",
             Probe3(task, "RESPONSIBLE_NAME", "responsible_name", "responsibleName"),
             Probe3(task, "RESPONSIBLE_ID", "responsible_id", "responsibleId")),
    NestedName(task, "responsible",
             Probe3(task, "RESPONSIBLE_NAME", "responsible_name", "responsibleName")),
    NestedId(task, "creator",
             Probe3(task, "CREATED_BY_NAME", "created_by_name", "createdByName"),
             Probe3(task, "CREATED_BY", "created_by", "createdBy")),
    NestedName(task, "creator",
             Probe3(task, "CREATED_BY_NAME", "created_by_name", "createdByName")))

\* lines 320-329 on a non-empty data section: the task-bearing value
TaskOf(data_section) ==
  IF ~Truthy(Get(data_section, "FIELDS_AFTER")) \/ IsUndefined(Get(data_section, "FIELDS_AFTER"))
  THEN Map(data_section)
  ELSE Get(data_section, "FIELDS_AFTER")

\* extract_task_data(webhook_data): Ok(None), Ok(record), or the AttributeError
\* of calling .get on a value that is not a dict
ExtractTaskData(wd, domain) ==
  IF wd.t # "map" THEN Raise("AttributeError")
  ELSE IF ~Truthy(GetD(wd.v, "data", EmptyMap)) THEN Ok(None)
  ELSE IF GetD(wd.v, "data", EmptyMap).t # "map" THEN Raise("AttributeError")
  ELSE IF IsUndefinedAnyCase(TaskOf(wd.v["data"].v)) THEN Ok(None)
  ELSE IF TaskOf(wd.v["data"].v).t # "map" THEN Raise("AttributeError")
  ELSE Ok(ExtractFields(TaskOf(wd.v["data"].v).v, domain))

(***************************************************************************)
(* Notification renderer: telegram_bot.py                                  *)
(***************************************************************************)
RECURSIVE ReplaceChar(_, _, _)
\* s.replace(c, r) for a one-character c
ReplaceChar(s, c, r) ==
  IF s = <<>> THEN <<>>
  ELSE (IF s[1] = c THEN r ELSE <<s[1]>>) \o ReplaceChar(Tail(s), c, r)

EscapeHtmlAmpLast(text) ==
  IF text = <<>> THEN <<>>
  ELSE ReplaceChar(ReplaceChar(ReplaceChar(text, "<", <<"&", "l", "t", ";">>),
                               ">", <<"&", "g", "t", ";">>),
                   "&", <<"&", "a", "m", "p", ";">>)

\* escape_html(text), text a str (task_data values are)
EscapeHtml(text) ==
  IF text = <<>> THEN <<>>
  ELSE ReplaceChar(ReplaceChar(ReplaceChar(text, "&", <<"&", "a", "m", "p", ";">>),
                               "<", <<"&", "l", "t", ";">>),
                   ">", <<"&", "g", "t", ";">>)

\* the first line of the message for each event type
LeadLine(event_type) ==
  IF event_type = "new"
  THEN <<"cyr:red circle ", "<", "b", ">", "cyr:Srochnaya zadacha", "<", "/", "b", ">", "\n">>
  ELSE <<"cyr:red circle Po srochnoy zadache postupilo obnovlenie", "\n">>

\* the message text send_task_notification builds
RenderMessage(td, event_type) ==
  LeadLine(event_type)
    \o <<"\n", "cyr:Ot: ">> \o EscapeHtml(td.creator_name)
    \o <<"\n", "\n", "cyr:Naimenovanie zadachi: ", "<", "b", ">">>
    \o EscapeHtml(td.title)
    \o <<"<", "/", "b", ">", "\n", "\n", "cyr:Detalnaya informatsiya po ssylke: ",
         "<", "a", " ", "h", "r", "e", "f", "=", "\"">>
    \o td.link
    \o <<"\"", ">", "cyr:Otkryt zadachu", "<", "/", "a", ">", "\n">>

(***************************************************************************)
(* Identity store: user_mapping.py                                         *)
(***************************************************************************)
S100 == <<"1", "0", "0">>
S200 == <<"2", "0", "0">>
S999 == <<"9", "9", "9">>
S555 == <<"5", "5", "5">>
S777 == <<"7", "7", "7">>

\* the document _load_mappings returns when the file is missing
EmptyMappings == [leaders |-> <<>>, telegram_chats |-> <<>>]

\* a load that forgets what the file holds
LoadMappingsEmpty(f) == EmptyMappings

\* _load_mappings(): the file's document; the empty structure when the file is
\* missing, cannot be opened (IOError) or does not hold JSON (JSONDecodeError)
LoadMappings(f) == IF f.kind = "json" THEN f.doc ELSE EmptyMappings

\* A file of kind "list" holds valid JSON that is not an object ([]): json.load
\* returns the list and the caller's mappings.get raises AttributeError
LoadRaises(f) == f.kind = "list"

\* the outcome of a store operation that raised
Raised == [t |-> "exc", v |-> "AttributeError"]

\* x in lst (Python list membership: ==, which never equates "100" and 100)
InList(x, lst) == \E i \in 1..Len(lst) : lst[i] = x

\* [str(leader) for leader in leaders]
StrAll(lst) == [i \in 1..Len(lst) |-> Str(PyStr(lst[i]))]

IsLeaderNoStr(f, uid) == InList(Str(PyStr(uid)), LoadMappings(f).leaders)

\* is_leader(bitrix24_user_id)
IsLeader(f, uid) == InList(Str(PyStr(uid)), StrAll(LoadMappings(f).leaders))

\* get_telegram_chat_id(bitrix24_user_id)
GetTelegramChatId(f, uid) == Get(LoadMappings(f).telegram_chats, PyStr(uid))

\* index of the first occurrence of x in lst (x is in lst)
FirstIndex(x, lst) == CHOOSE i \in 1..Len(lst) : lst[i] = x /\ \A j \in 1..(i - 1) : lst[j] # x

\* lst.remove(x): drops the first occurrence only
ListRemove(lst, x) ==
  [i \in 1..(Len(lst) - 1) |-> IF i < FirstIndex(x, lst) THEN lst[i] ELSE lst[i + 1]]

\* dict with key k set to v
DictSet(d, k, v) == [x \in DOMAIN d \cup {k} |-> IF x = k THEN v ELSE d[x]]

\* del d[k]
DictDel(d, k) == [x \in DOMAIN d \ {k} |-> d[x]]

\* _save_mappings(mappings): the file after the call.  io_ok = FALSE is an IOError:
\* open() failed and the file is as before, or the write failed after open()
\* truncated it (trunc)
SaveMappings(f, mappings, io_ok, trunc) ==
  IF io_ok THEN [kind |-> "json", doc |-> mappings]
  ELSE IF trunc THEN [kind |-> "garbage", doc |-> EmptyMappings] ELSE f

\* add_leader: the document it saves (it saves only when the id is not in the list)
AddLeaderDoc(f, uid) ==
  [LoadMappings(f) EXCEPT !.leaders = Append(@, Str(PyStr(uid)))]

AddLeaderWrites(f, uid) == ~InList(Str(PyStr(uid)), LoadMappings(f).leaders)

\* remove_leader: the document it saves (it saves only when the id is in the list)
RemoveLeaderDoc(f, uid) ==
  [LoadMappings(f) EXCEPT !.leaders = ListRemove(@, Str(PyStr(uid)))]

RemoveLeaderWrites(f, uid) == InList(Str(PyStr(uid)), LoadMappings(f).leaders)

\* add_telegram_mapping: the document it saves (always)
AddTelegramMappingDoc(f, uid, chat) ==
  [LoadMappings(f) EXCEPT !.telegram_chats = DictSet(@, PyStr(uid), Str(PyStr(chat)))]

\* remove_telegram_mapping: the document it saves (only when the key is present)
RemoveTelegramMappingDoc(f, uid) ==
  [LoadMappings(f) EXCEPT !.telegram_chats = DictDel(@, PyStr(uid))]

RemoveTelegramMappingWrites(f, uid) == PyStr(uid) \in DOMAIN LoadMappings(f).telegram_chats

(***************************************************************************)
(* Request parsing: app.py, webhook_tasks lines 418-505                    *)
(*                                                                         *)
(* A request is [method, is_json, body].  A body is                        *)
(*   [kind |-> "json", value, pairs]      text that json.loads accepts     *)
(*   [kind |-> "malformed", ...]          other text without any key=value *)
(*   [kind |-> "empty", ...]              no text                          *)
(*   [kind |-> "form", ...]               key=value pairs, form content    *)
(*                                        type (request.form is filled)    *)
(*   [kind |-> "qs", ...]                 key=value pairs, other content   *)
(*                                        type (request.form is empty)     *)
(* A pair is <<key, value>>: the key a sequence of tokens (names, "[" and  *)
(* "]"), the value a str.  GET parameters are the pairs of a "qs" body.    *)
(***************************************************************************)
RECURSIVE SplitOnBracket(_, _)
\* tokens.split("["), cur the segment being read
SplitOnBracket(tokens, cur) ==
  IF tokens = <<>> THEN <<cur>>
  ELSE IF tokens[1] = "[" THEN <<cur>> \o SplitOnBracket(Tail(tokens), "")
  ELSE SplitOnBracket(Tail(tokens), cur \o tokens[1])

\* key.replace("]", "").split("[")
SplitKey(key) == SplitOnBracket(RemoveAtom(key, "]"), "")

RECURSIVE SetPath(_, _, _)
\* the walk of lines 465-474 from the dict cur: Ok(dict), or the TypeError raised
\* when an intermediate key already holds a str
SetPath(cur, keys, value) ==
  IF Len(keys) = 1 THEN Ok(DictSet(cur, keys[1], value))
  ELSE IF GetD(cur, keys[1], EmptyMap).t # "map" THEN Raise("TypeError")
  ELSE IF SetPath(GetD(cur, keys[1], EmptyMap).v, Tail(keys), value).exc # "none"
       THEN Raise("TypeError")
       ELSE Ok(DictSet(cur, keys[1],
                 Map(SetPath(GetD(cur, keys[1], EmptyMap).v, Tail(keys), value).val)))

RECURSIVE Unflatten(_, _)
\* the loop over the pairs, from the dict acc: [exc, val], val the dict built
\* (on an exception: up to the pair that raised)
Unflatten(pairs, acc) ==
  IF pairs = <<>> THEN Ok(acc)
  ELSE IF SetPath(acc, SplitKey(pairs[1][1]), pairs[1][2]).exc # "none"
       THEN [exc |-> "TypeError", val |-> acc]
       ELSE Unflatten(Tail(pairs), SetPath(acc, SplitKey(pairs[1][1]), pairs[1][2]).val)

RECURSIVE Unquote(_)
\* urllib.parse.unquote on the escapes the inputs use: %25 is "%", %41 is "A"
Unquote(s) ==
  IF s = <<>> THEN <<>>
  ELSE IF Len(s) >= 3 /\ SubSeq(s, 1, 3) = <<"%", "2", "5">> THEN <<"%">> \o Unquote(SubSeq(s, 4, Len(s)))
  ELSE IF Len(s) >= 3 /\ SubSeq(s, 1, 3) = <<"%", "4", "1">> THEN <<"A">> \o Unquote(SubSeq(s, 4, Len(s)))
  ELSE <<s[1]>> \o Unquote(Tail(s))

\* the pairs as request.form.items() gives them: percent-decoded once
FormItems(pairs) == [i \in 1..Len(pairs) |-> <<pairs[i][1], Str(Unquote(pairs[i][2]))>>]

\* the pairs as the loop over parse_qs(raw_data) sees them: parse_qs drops blank
\* values and decodes once, and line 490 decodes again
QsItems(pairs) ==
  [i \in 1..Len(SelectSeq(pairs, LAMBDA p : p[2] # <<>>)) |->
     << SelectSeq(pairs, LAMBDA p : p[2] # <<>>)[i][1],
        Str(Unquote(Unquote(SelectSeq(pairs, LAMBDA p : p[2] # <<>>)[i][2]))) >>]

RECURSIVE JoinTokens(_)
\* the key text: its tokens side by side
JoinTokens(key) == IF key = <<>> THEN "" ELSE key[1] \o JoinTokens(Tail(key))

RECURSIVE FlatDict(_)
\* dict(request.args): the keys are the parameter names as sent, brackets
\* included; the first value of a repeated name
FlatDict(pairs) ==
  IF pairs = <<>> THEN <<>>
  ELSE DictSet(FlatDict(Tail(pairs)), JoinTokens(pairs[1][1]), Str(Unquote(pairs[1][2])))

\* the POST branch: Ok(webhook_data), Ok(None) when nothing parsed, or the
\* exception that leaves the parsing code (get_json raises BadRequest on a body
\* that is not JSON)
ParsePost(rq) ==
  IF rq.is_json
  THEN IF rq.body.kind = "json" THEN Ok(rq.body.value) ELSE Raise("BadRequest")
  ELSE IF rq.body.kind = "empty" THEN Ok(None)
  ELSE IF rq.body.kind = "json" THEN Ok(rq.body.value)
  ELSE IF rq.body.kind = "form" THEN
         IF Unflatten(FormItems(rq.body.pairs), <<>>).exc = "none"
         THEN Ok(Map(Unflatten(FormItems(rq.body.pairs), <<>>).val))
         ELSE Raise("TypeError")
  ELSE IF rq.body.kind = "qs" THEN Ok(Map(Unflatten(QsItems(rq.body.pairs), <<>>).val))
  ELSE Ok(EmptyMap)

\* webhook_data as lines 420-500 leave it
ParseRequest(rq) ==
  IF rq.method = "GET" THEN Ok(Map(FlatDict(rq.body.pairs))) ELSE ParsePost(rq)

(***************************************************************************)
(* CRM fetch: app.py, get_task_from_bitrix24                               *)
(***************************************************************************)
CountAtom(s, a) == Len(SelectSeq(s, LAMBDA c : c = a))

\* the authorization schemes available, in the order they are tried; token is
\* Config.BITRIX24_AUTH_TOKEN
AuthMethods(token, ad) ==
  (IF token # <<>> /\ CountAtom(token, "/") = 1 THEN <<"incoming">> ELSE <<>>)
  \o (IF Truthy(Get(ad, "access_token")) THEN <<"oauth">> ELSE <<>>)
  \o (IF Truthy(Get(ad, "application_token")) THEN <<"app_token">> ELSE <<>>)
  \o (IF token # <<>> /\ CountAtom(token, "/") = 0 THEN <<"config_token">> ELSE <<>>)

\* a loop that goes through every scheme whatever the answers
AttemptsMadeAll(outs) == Len(outs)

\* An attempt's outcome is [kind, task]: kind "task" (a successful response
\* carrying a task), "error" (error field), "notask", or "exception".
\* the number of attempts made when the schemes meet the outcomes outs
AttemptsMade(outs) ==
  IF \E i \in 1..Len(outs) : outs[i].kind = "task"
  THEN CHOOSE i \in 1..Len(outs) :
         outs[i].kind = "task" /\ \A j \in 1..(i - 1) : outs[j].kind # "task"
  ELSE Len(outs)

\* get_task_from_bitrix24: the task returned, None when every scheme failed
FetchResult(outs) ==
  IF \E i \in 1..Len(outs) : outs[i].kind = "task"
  THEN outs[AttemptsMade(outs)].task
  ELSE None

\* get_task_from_bitrix24(task_id, auth_data) when the i-th scheme tried is
\* answered outs[i]: the attempts made and the value returned
GetTaskFromBitrix24(tid, token, ad, outs) ==
  IF ~Truthy(tid) THEN [attempts |-> <<>>, task |-> None]
  ELSE [ attempts |-> [i \in 1..AttemptsMade(outs) |->
                        [method |-> AuthMethods(token, ad)[i], kind |-> outs[i].kind]],
         task |-> FetchResult(outs) ]

storevars == <<file, adm, nadm, procs>>
hvars == <<cfg, pc, req, webhook_data, task_id, auth_data, attempts, full_task_data, task_data,
           telegram_chat_id, calls, posts, resp>>
fvars == <<fin, fout>>
vars == <<storevars, hvars, fvars>>

(***************************************************************************)
(* Bounds and input sets                                                   *)
(***************************************************************************)
MaxAdminOps == 2

\* ids given on the manage_mappings.py command line (sys.argv: always str)
AdminIds == {Str(S100), Str(S200)}
AdminChats == {Str(S555), Str(S777)}
\* ids looked up: creator ids arrive as str or, from a direct caller, as int
LookupIds == {Str(S100), Num(100), Str(S200), Str(S999)}

Chats200 == DictSet(<<>>, S200, Str(S555))

\* contents user_mappings.json can have when the service starts: absent, empty,
\* written by add_leader, or edited by hand (numeric or repeated leaders)
InitFiles ==
  { [kind |-> "missing", doc |-> EmptyMappings],
    [kind |-> "json", doc |-> [leaders |-> <<Str(S100)>>, telegram_chats |-> Chats200]],
    [kind |-> "json", doc |-> [leaders |-> <<Num(100)>>, telegram_chats |-> Chats200]],
    [kind |-> "json", doc |-> [leaders |-> <<Str(S100), Str(S100)>>, telegram_chats |-> <<>>]],
    [kind |-> "json", doc |-> [leaders |-> <<Str(S200), Str(S100)>>, telegram_chats |-> Chats200]] }

\* the file when the service starts in the runs that mix commands and a request
StartFile ==
  [kind |-> "json", doc |-> [leaders |-> <<Str(S100)>>, telegram_chats |-> Chats200]]

NoAdm == [op |-> "none", uid |-> None, chat |-> None, ret |-> None]

\* the processes that can run store operations at the same time
Procs == {"p1", "p2"}
NoProc ==
  [pc |-> "idle", op |-> "none", uid |-> None, chat |-> None, doc |-> EmptyMappings,
   partial |-> FALSE, after |-> {}, ret |-> None]
NoProcs == [p \in Procs |-> NoProc]

(***************************************************************************)
(* Store operations, one manage_mappings.py command each                   *)
(***************************************************************************)
AddLeader(uid, io_ok, trunc) ==
  /\ nadm < MaxAdminOps
  /\ nadm' = nadm + 1
  /\ IF LoadRaises(file)
     THEN /\ file' = file
          /\ adm' = [op |-> "add_leader", uid |-> uid, chat |-> None, ret |-> Raised]
     ELSE IF AddLeaderWrites(file, uid)
     THEN /\ file' = SaveMappings(file, AddLeaderDoc(file, uid), io_ok, trunc)
          /\ adm' = [op |-> "add_leader", uid |-> uid, chat |-> None, ret |-> Bool(io_ok)]
     ELSE /\ file' = file
          /\ adm' = [op |-> "add_leader", uid |-> uid, chat |-> None, ret |-> Bool(TRUE)]

RemoveLeader(uid, io_ok, trunc) ==
  /\ nadm < MaxAdminOps
  /\ nadm' = nadm + 1
  /\ IF LoadRaises(file)
     THEN /\ file' = file
          /\ adm' = [op |-> "remove_leader", uid |-> uid, chat |-> None, ret |-> Raised]
     ELSE IF RemoveLeaderWrites(file, uid)
     THEN /\ file' = SaveMappings(file, RemoveLeaderDoc(file, uid), io_ok, trunc)
          /\ adm' = [op |-> "remove_leader", uid |-> uid, chat |-> None, ret |-> Bool(io_ok)]
     ELSE /\ file' = file
          /\ adm' = [op |-> "remove_leader", uid |-> uid, chat |-> None, ret |-> Bool(TRUE)]

AddTelegramMapping(uid, chat, io_ok, trunc) ==
  /\ nadm < MaxAdminOps
  /\ nadm' = nadm + 1
  /\ IF LoadRaises(file)
     THEN /\ file' = file
          /\ adm' = [op |-> "add_telegram_mapping", uid |-> uid, chat |-> chat, ret |-> Raised]
     ELSE /\ file' = SaveMappings(file, AddTelegramMappingDoc(file, uid, chat), io_ok, trunc)
          /\ adm' = [op |-> "add_telegram_mapping", uid |-> uid, chat |-> chat,
                     ret |-> Bool(io_ok)]

RemoveTelegramMapping(uid, io_ok, trunc) ==
  /\ nadm < MaxAdminOps
  /\ nadm' = nadm + 1
  /\ IF LoadRaises(file)
     THEN /\ file' = file
          /\ adm' = [op |-> "remove_telegram_mapping", uid |-> uid, chat |-> None, ret |-> Raised]
     ELSE IF RemoveTelegramMappingWrites(file, uid)
     THEN /\ file' = SaveMappings(file, RemoveTelegramMappingDoc(file, uid), io_ok, trunc)
          /\ adm' = [op |-> "remove_telegram_mapping", uid |-> uid, chat |-> None,
                     ret |-> Bool(io_ok)]
     ELSE /\ file' = file
          /\ adm' = [op |-> "remove_telegram_mapping", uid |-> uid, chat |-> None,
                     ret |-> Bool(TRUE)]

\* manage_mappings.py check-leader
CheckLeader(uid) ==
  /\ nadm < MaxAdminOps
  /\ nadm' = nadm + 1
  /\ file' = file
  /\ adm' = [op |-> "is_leader", uid |-> uid, chat |-> None,
             ret |-> IF LoadRaises(file) THEN Raised ELSE Bool(IsLeader(file, uid))]

\* manage_mappings.py get-chat
GetChat(uid) ==
  /\ nadm < MaxAdminOps
  /\ nadm' = nadm + 1
  /\ file' = file
  /\ adm' = [op |-> "get_telegram_chat_id", uid |-> uid, chat |-> None,
             ret |-> IF LoadRaises(file) THEN Raised ELSE GetTelegramChatId(file, uid)]

\* manage_mappings.py list: list_mappings() returns what _load_mappings returns
ListMappings ==
  /\ nadm < MaxAdminOps
  /\ nadm' = nadm + 1
  /\ file' = file
  /\ adm' = [op |-> "list_mappings", uid |-> None, chat |-> None,
             ret |-> IF LoadRaises(file) THEN List(<<>>) ELSE Map(LoadMappings(file))]

\* manage_mappings.py leaders: get_all_leaders()
GetAllLeaders ==
  /\ nadm < MaxAdminOps
  /\ nadm' = nadm + 1
  /\ file' = file
  /\ adm' = [op |-> "get_all_leaders", uid |-> None, chat |-> None,
             ret |-> IF LoadRaises(file) THEN Raised
                     ELSE List(StrAll(LoadMappings(file).leaders))]

StoreOp ==
  /\ UNCHANGED <<hvars, fvars, procs>>
  /\ \/ \E uid \in AdminIds, io_ok \in BOOLEAN, trunc \in BOOLEAN : AddLeader(uid, io_ok, trunc)
     \/ \E uid \in AdminIds, io_ok \in BOOLEAN, trunc \in BOOLEAN : RemoveLeader(uid, io_ok, trunc)
     \/ \E uid \in AdminIds, chat \in AdminChats, io_ok \in BOOLEAN, trunc \in BOOLEAN :
          AddTelegramMapping(uid, chat, io_ok, trunc)
     \/ \E uid \in AdminIds, io_ok \in BOOLEAN, trunc \in BOOLEAN :
          RemoveTelegramMapping(uid, io_ok, trunc)
     \/ \E uid \in LookupIds : CheckLeader(uid)
     \/ \E uid \in LookupIds : GetChat(uid)
     \/ ListMappings
     \/ GetAllLeaders

(***************************************************************************)
(* Inputs of the webhook handler                                           *)
(***************************************************************************)
W_OnTaskAdd == <<"O", "n", "T", "a", "s", "k", "A", "d", "d">>
W_ONTASKADD == <<"O", "N", "T", "A", "S", "K", "A", "D", "D">>
W_OnTaskUpdate == <<"O", "n", "T", "a", "s", "k", "U", "p", "d", "a", "t", "e">>

\* Config as the environment can set it: the defaults with a bot token; a CRM
\* domain with an incoming-webhook credential; nothing configured
Cfgs ==
  { [domain |-> <<>>, token |-> <<"gu3ck">>, bot_token |-> TRUE],
    [domain |-> <<"https://", "b24.example">>, token |-> <<"7", "/", "key">>, bot_token |-> TRUE],
    [domain |-> <<>>, token |-> <<>>, bot_token |-> FALSE] }

JsonBody(value) == [kind |-> "json", value |-> value, pairs |-> <<>>]
TextBody(kind) == [kind |-> kind, value |-> None, pairs |-> <<>>]
PairsBody(kind, pairs) == [kind |-> kind, value |-> None, pairs |-> pairs]

Id1 == Map("ID" :> Str(<<"1">>))
AccessToken == Map("access_token" :> Str(<<"t">>))
BothTokens == Map(("access_token" :> Str(<<"t">>)) @@ ("application_token" :> Str(<<"a">>)))

Envelope(event, fields_after, auth) ==
  Map(("event" :> Str(event)) @@ ("data" :> Map("FIELDS_AFTER" :> fields_after))
      @@ ("auth" :> auth))

\* data[FIELDS_AFTER][ID]=1&event=ONTASKADD&auth[access_token]=t
BracketPairs ==
  << << <<"data", "[", "FIELDS_AFTER", "]", "[", "ID", "]">>, <<"1">> >>,
     << <<"event">>, W_ONTASKADD >>,
     << <<"auth", "[", "access_token", "]">>, <<"t">> >> >>

\* data=x&data[ID]=1
ClashingPairs ==
  << << <<"data">>, <<"x">> >>, << <<"data", "[", "ID", "]">>, <<"1">> >> >>

Requests ==
  { [method |-> "POST", is_json |-> TRUE, body |-> JsonBody(Envelope(W_OnTaskAdd, Id1, AccessToken))],
    [method |-> "POST", is_json |-> FALSE, body |-> JsonBody(Envelope(W_OnTaskUpdate, Id1, BothTokens))],
    [method |-> "POST", is_json |-> TRUE, body |-> JsonBody(Map("data" :> Map("id" :> Num(1))))],
    [method |-> "POST", is_json |-> TRUE,
     body |-> JsonBody(Map("data" :> Map(("FIELDS_AFTER" :> Str(W_undefined)) @@ ("ID" :> Str(<<"1">>)))))],
    [method |-> "POST", is_json |-> TRUE, body |-> JsonBody(Map("data" :> Str(W_undefined)))],
    [method |-> "POST", is_json |-> TRUE,
     body |-> JsonBody(Map("data" :> Map("FIELDS_AFTER" :> Str(<<"a", "b", "c">>))))],
    [method |-> "POST", is_json |-> TRUE, body |-> JsonBody(Envelope(W_OnTaskAdd, Id1, Str(<<"x">>)))],
    [method |-> "POST", is_json |-> TRUE, body |-> JsonBody(EmptyMap)],
    [method |-> "POST", is_json |-> TRUE, body |-> JsonBody(Map("data" :> Map("ID" :> EmptyStr)))],
    [method |-> "POST", is_json |-> TRUE, body |-> JsonBody(List(<<>>))],
    [method |-> "POST", is_json |-> TRUE, body |-> JsonBody(None)],
    [method |-> "POST", is_json |-> TRUE, body |-> TextBody("malformed")],
    [method |-> "POST", is_json |-> FALSE, body |-> TextBody("malformed")],
    [method |-> "POST", is_json |-> FALSE, body |-> TextBody("empty")],
    [method |-> "POST", is_json |-> TRUE, body |-> TextBody("empty")],
    [method |-> "POST", is_json |-> FALSE, body |-> PairsBody("form", BracketPairs)],
    [method |-> "POST", is_json |-> FALSE, body |-> PairsBody("form", ClashingPairs)],
    [method |-> "POST", is_json |-> FALSE, body |-> PairsBody("qs", BracketPairs)],
    [method |-> "POST", is_json |-> FALSE, body |-> PairsBody("qs", ClashingPairs)],
    [method |-> "GET", is_json |-> FALSE, body |-> PairsBody("qs", BracketPairs)] }

\* the instants datetime.now() returns, in seconds: Now0 and a second later
Now0 == 100000
Nows == {Now0, Now0 + 1}
\* a deadline text in the first layout
Deadline(secs) == Str(<<"%Y-%m-%d %H:%M:%S">> \o DecStr(secs))

RestTask(status, priority, created_by, responsible_id, title) ==
  ("id" :> Str(<<"1">>)) @@ ("status" :> status) @@ ("priority" :> priority)
    @@ ("createdBy" :> created_by) @@ ("responsibleId" :> responsible_id) @@ ("title" :> title)

\* tasks the CRM answers tasks.task.get with
CrmTasks ==
  { Map(RestTask(Str(<<"2">>), Str(<<"3">>), Str(S100), Str(S200), Str(<<"a", "&", "b">>))),
    Map(RestTask(Str(<<"2">>), Str(<<"3">>), Str(S999), Str(S200), Str(<<"a">>))),
    Map(RestTask(Str(<<"5">>), Str(<<"3">>), Str(S100), Str(S200), Str(<<"a">>))),
    Map(RestTask(Str(<<"2">>), Str(<<"3">>), Str(S100), Str(S999), Str(<<"a">>))),
    Map(RestTask(Str(<<"2">>), Num(3), Num(100), Num(200), Str(<<"<", "b", ">">>))),
    Map(RestTask(Str(<<"5">>), Str(<<"1">>), Str(S999), Str(S200), EmptyStr)),
    Map(("statusId" :> Str(<<"3">>)) @@ RestTask(Str(<<"5">>), Str(<<"1">>), Str(S100), Str(S200), Str(<<"a">>))),
    Map(("statusId" :> Str(<<"3">>)) @@ ("deadline" :> Deadline(Now0 + URGENT_DEADLINE_HOURS * 3600))
        @@ RestTask(Str(<<"5">>), Str(<<"1">>), Str(S100), Str(S200), Str(<<"a">>))),
    Map(("isImportant" :> Bool(TRUE)) @@ RestTask(Str(<<"5">>), FloatInf, Str(S100), Str(S200), Str(<<"a">>))),
    Map(("ID" :> Str(<<"1">>)) @@ ("STATUS" :> Str(<<"2">>)) @@ ("PRIORITY" :> Str(<<"2">>))
        @@ ("CREATED_BY" :> Str(S100)) @@ ("RESPONSIBLE_ID" :> Str(S200))
        @@ ("creator" :> Map("name" :> Str(<<"A", "&", "B">>)))) }

FailKinds == {"exception", "error", "notask"}
NoTask == [kind |-> "notask", task |-> None]
\* what the CRM can answer n attempts with: every attempt fails, or attempt k is
\* the first to carry a task
FetchOutcomes(n) ==
  { [i \in 1..n |-> [kind |-> fk, task |-> None]] : fk \in FailKinds }
  \cup { [i \in 1..n |-> IF i < k THEN [kind |-> fk, task |-> None]
                         ELSE IF i = k THEN [kind |-> "task", task |-> t] ELSE NoTask] :
           k \in 1..n, fk \in FailKinds, t \in CrmTasks }

SendOutcomes == {"ok", "not_ok", "request_exception"}

(***************************************************************************)
(* The webhook handler: app.py, webhook_tasks.  One action per stage; each *)
(* stage either answers the request (pc = "done") or hands on to the next. *)
(***************************************************************************)
Respond(status, message) ==
  /\ resp' = [status |-> status, message |-> message]
  /\ pc' = "done"

\* the except clause of lines 637-641
InternalError == Respond(500, "Internal server error")

Call(fn, ret) == calls' = Append(calls, [fn |-> fn, ret |-> ret])

\* lines 418-517: read the request into webhook_data
ParseStage(r) ==
  /\ pc = "idle"
  /\ req' = r
  /\ UNCHANGED <<cfg, task_id, auth_data, attempts, full_task_data, task_data,
                 telegram_chat_id, calls, posts>>
  /\ IF ParseRequest(r).exc # "none"
     THEN InternalError /\ UNCHANGED webhook_data
     ELSE IF r.method = "POST" /\ ParseRequest(r).val = None
          THEN Respond(400, "Could not parse request data") /\ UNCHANGED webhook_data
          ELSE webhook_data' = ParseRequest(r).val /\ pc' = "task_id" /\ UNCHANGED resp

\* webhook_data.get("data", {}) of lines 520 and 522
DataOf(wd) == GetD(wd.v, "data", EmptyMap)

\* task_fields_after after lines 520-522; DataOf(wd) is a dict
FieldsAfterOf(wd) ==
  IF ~Truthy(GetD(DataOf(wd).v, "FIELDS_AFTER", EmptyMap))
     \/ IsUndefined(GetD(DataOf(wd).v, "FIELDS_AFTER", EmptyMap))
  THEN DataOf(wd)
  ELSE GetD(DataOf(wd).v, "FIELDS_AFTER", EmptyMap)

\* lines 519-538: the task id and the auth data of the event
TaskIdStage ==
  /\ pc = "task_id"
  /\ UNCHANGED <<cfg, req, webhook_data, attempts, full_task_data, task_data,
                 telegram_chat_id, calls, posts>>
  /\ IF webhook_data.t # "map" THEN InternalError /\ UNCHANGED <<task_id, auth_data>>
     ELSE IF DataOf(webhook_data).t # "map" THEN InternalError /\ UNCHANGED <<task_id, auth_data>>
     ELSE IF FieldsAfterOf(webhook_data).t # "map"
          THEN InternalError /\ UNCHANGED <<task_id, auth_data>>
     ELSE /\ task_id' = GetD(FieldsAfterOf(webhook_data).v, "ID",
                              GetD(FieldsAfterOf(webhook_data).v, "id", EmptyStr))
          /\ IF ~Truthy(task_id') THEN Respond(200, "No task ID") /\ UNCHANGED auth_data
             ELSE IF GetD(webhook_data.v, "auth", EmptyMap).t # "map"
                  THEN InternalError /\ UNCHANGED auth_data
                  ELSE /\ auth_data' = GetD(webhook_data.v, "auth", EmptyMap)
                       /\ pc' = "fetch"
                       /\ UNCHANGED resp

\* lines 539-545: get_task_from_bitrix24 meeting the CRM's answers outs
FetchStage(outs) ==
  /\ pc = "fetch"
  /\ Len(outs) = Len(AuthMethods(cfg.token, auth_data.v))
  /\ UNCHANGED <<cfg, req, webhook_data, task_id, auth_data, task_data, telegram_chat_id, posts>>
  /\ attempts' = [i \in 1..AttemptsMade(outs) |->
                    [method |-> AuthMethods(cfg.token, auth_data.v)[i], kind |-> outs[i].kind]]
  /\ full_task_data' = FetchResult(outs)
  /\ Call("get_task_from_bitrix24", FetchResult(outs))
  /\ IF ~Truthy(FetchResult(outs)) THEN Respond(200, "Could not fetch task data")
     ELSE pc' = "normalize" /\ UNCHANGED resp

\* lines 547-565: extract_task_data on the fetched task
NormalizeStage ==
  /\ pc = "normalize"
  /\ UNCHANGED <<cfg, req, webhook_data, task_id, auth_data, attempts, full_task_data,
                 telegram_chat_id, posts>>
  /\ IF ExtractTaskData(Map("data" :> Map("FIELDS_AFTER" :> full_task_data)), cfg.domain).exc
          # "none"
     THEN InternalError /\ UNCHANGED <<task_data, calls>>
     ELSE IF ExtractTaskData(Map("data" :> Map("FIELDS_AFTER" :> full_task_data)), cfg.domain).val
               = None
          THEN /\ Respond(200, "Could not extract task data")
               /\ Call("extract_task_data", Bool(FALSE))
               /\ UNCHANGED task_data
          ELSE /\ task_data' = ExtractTaskData(Map("data" :> Map("FIELDS_AFTER" :> full_task_data)),
                                               cfg.domain).val
               /\ Call("extract_task_data", Bool(TRUE))
               /\ pc' = "important"
               /\ UNCHANGED resp

ImportantStageNoStop ==
  /\ pc = "important"
  /\ UNCHANGED <<cfg, req, webhook_data, task_id, auth_data, attempts, full_task_data,
                 task_data, telegram_chat_id, posts>>
  /\ IF IsTaskImportant(full_task_data.v).exc # "none" THEN InternalError /\ UNCHANGED calls
     ELSE /\ Call("is_task_important", Bool(IsTaskImportant(full_task_data.v).val))
          /\ pc' = "leader"
          /\ UNCHANGED resp

\* lines 567-579: filter 1
ImportantStage ==
  /\ pc = "important"
  /\ UNCHANGED <<cfg, req, webhook_data, task_id, auth_data, attempts, full_task_data,
                 task_data, telegram_chat_id, posts>>
  /\ IF IsTaskImportant(full_task_data.v).exc # "none" THEN InternalError /\ UNCHANGED calls
     ELSE /\ Call("is_task_important", Bool(IsTaskImportant(full_task_data.v).val))
          /\ IF ~IsTaskImportant(full_task_data.v).val THEN Respond(200, "Task not important")
             ELSE pc' = "leader" /\ UNCHANGED resp

LeaderStageNoStop ==
  /\ pc = "leader"
  /\ UNCHANGED <<cfg, req, webhook_data, task_id, auth_data, attempts, full_task_data,
                 task_data, telegram_chat_id, posts>>
  /\ Call("is_leader", Bool(IsLeader(file, Str(task_data.creator_id))))
  /\ pc' = "urgent"
  /\ UNCHANGED resp

\* lines 581-588: filter 2; an exception of is_leader reaches the except clause
\* a leader check answering from the store as it was when the service started
LeaderStageCached ==
  /\ pc = "leader"
  /\ UNCHANGED <<cfg, req, webhook_data, task_id, auth_data, attempts, full_task_data,
                 task_data, telegram_chat_id, posts>>
  /\ Call("is_leader", Bool(IsLeader(StartFile, Str(task_data.creator_id))))
  /\ IF ~IsLeader(StartFile, Str(task_data.creator_id))
     THEN Respond(200, "Creator not a leader")
     ELSE pc' = "urgent" /\ UNCHANGED resp

LeaderStage ==
  /\ pc = "leader"
  /\ UNCHANGED <<cfg, req, webhook_data, task_id, auth_data, attempts, full_task_data,
                 task_data, telegram_chat_id, posts>>
  /\ IF LoadRaises(file) THEN InternalError /\ UNCHANGED calls
     ELSE /\ Call("is_leader", Bool(IsLeader(file, Str(task_data.creator_id))))
          /\ IF ~IsLeader(file, Str(task_data.creator_id))
             THEN Respond(200, "Creator not a leader")
             ELSE pc' = "urgent" /\ UNCHANGED resp

\* lines 590-598: filter 3, at the instant now
UrgentStage(now) ==
  /\ pc = "urgent"
  /\ UNCHANGED <<cfg, req, webhook_data, task_id, auth_data, attempts, full_task_data,
                 task_data, telegram_chat_id, posts>>
  /\ IF IsTaskUrgent(full_task_data.v, now).exc # "none" THEN InternalError /\ UNCHANGED calls
     ELSE /\ Call("is_task_urgent", Bool(IsTaskUrgent(full_task_data.v, now).val))
          /\ IF ~IsTaskUrgent(full_task_data.v, now).val THEN Respond(200, "Task not urgent")
             ELSE pc' = "chat" /\ UNCHANGED resp

ChatStageCreator ==
  /\ pc = "chat"
  /\ UNCHANGED <<cfg, req, webhook_data, task_id, auth_data, attempts, full_task_data,
                 task_data, posts>>
  /\ telegram_chat_id' = GetTelegramChatId(file, Str(task_data.creator_id))
  /\ Call("get_telegram_chat_id", telegram_chat_id')
  /\ IF ~Truthy(telegram_chat_id')
     THEN Respond(200, "No Telegram mapping for responsible user")
     ELSE pc' = "send" /\ UNCHANGED resp

\* lines 600-612: the chat id of the responsible user; an exception of
\* get_telegram_chat_id reaches the except clause
ChatStage ==
  /\ pc = "chat"
  /\ UNCHANGED <<cfg, req, webhook_data, task_id, auth_data, attempts, full_task_data,
                 task_data, posts>>
  /\ IF LoadRaises(file) THEN InternalError /\ UNCHANGED <<telegram_chat_id, calls>>
     ELSE /\ telegram_chat_id' = GetTelegramChatId(file, Str(task_data.responsible_id))
          /\ Call("get_telegram_chat_id", telegram_chat_id')
          /\ IF ~Truthy(telegram_chat_id')
             THEN Respond(200, "No Telegram mapping for responsible user")
             ELSE pc' = "send" /\ UNCHANGED resp

\* "Add" in event (line 616): Ok(bool), or TypeError for a value "in" rejects
AddInEvent(event) ==
  CASE event.t = "str" -> Ok(Contains(event.v, <<"A", "d", "d">>))
    [] event.t = "map" -> Ok("Add" \in DOMAIN event.v)
    [] event.t = "list" -> Ok(InList(Str(<<"A", "d", "d">>), event.v))
    [] OTHER -> Raise("TypeError")

\* event_type of lines 615-616
EventType(wd) ==
  IF AddInEvent(GetD(wd.v, "event", EmptyStr)).val THEN "new" ELSE "updated"

\* send_task_notification: whether it posts at all (a bot token is configured)
SendPosts(c) == c.bot_token

\* send_task_notification: its return value when the Telegram API answers outcome
SendResult(c, outcome) == c.bot_token /\ outcome = "ok"

\* the message posted, with the answer of the Telegram API to it
Post(outcome) ==
  [chat_id |-> telegram_chat_id, text |-> RenderMessage(task_data, EventType(webhook_data)),
   answer |-> outcome]

SendStageRetry(outcome) ==
  /\ pc = "send"
  /\ UNCHANGED <<cfg, req, webhook_data, task_id, auth_data, attempts, full_task_data,
                 task_data, telegram_chat_id>>
  /\ calls' = Append(calls,
         [fn |-> "send_task_notification", ret |-> Bool(SendResult(cfg, outcome)),
          chat_id |-> telegram_chat_id, event_type |-> EventType(webhook_data)])
  /\ posts' = IF ~SendPosts(cfg) THEN posts
              ELSE IF outcome = "ok" THEN Append(posts, Post(outcome))
              ELSE posts \o <<Post(outcome), Post(outcome)>>
  /\ IF SendResult(cfg, outcome) THEN Respond(200, "Notification sent")
     ELSE Respond(500, "Failed to send notification")

\* lines 614-635: render, dispatch and answer
SendStage(outcome) ==
  /\ pc = "send"
  /\ UNCHANGED <<cfg, req, webhook_data, task_id, auth_data, attempts, full_task_data,
                 task_data, telegram_chat_id>>
  /\ IF AddInEvent(GetD(webhook_data.v, "event", EmptyStr)).exc # "none"
     THEN InternalError /\ UNCHANGED <<calls, posts>>
     ELSE /\ calls' = Append(calls,
                 [fn |-> "send_task_notification", ret |-> Bool(SendResult(cfg, outcome)),
                  chat_id |-> telegram_chat_id, event_type |-> EventType(webhook_data)])
          /\ posts' = IF SendPosts(cfg) THEN Append(posts, Post(outcome)) ELSE posts
          /\ IF SendResult(cfg, outcome) THEN Respond(200, "Notification sent")
             ELSE Respond(500, "Failed to send notification")

NoReq == [method |-> "none", is_json |-> FALSE, body |-> TextBody("empty")]
NoResp == [status |-> 0, message |-> ""]

\* the response is returned and the worker waits for the next request
Finish ==
  /\ pc = "done"
  /\ pc' = "idle"
  /\ req' = NoReq
  /\ webhook_data' = None
  /\ task_id' = None
  /\ auth_data' = None
  /\ attempts' = <<>>
  /\ full_task_data' = None
  /\ task_data' = None
  /\ telegram_chat_id' = None
  /\ calls' = <<>>
  /\ posts' = <<>>
  /\ resp' = NoResp
  /\ UNCHANGED cfg

Handler ==
  /\ UNCHANGED <<storevars, fvars>>
  /\ \/ \E r \in Requests : ParseStage(r)
     \/ TaskIdStage
     \/ \E n \in 0..3 : \E outs \in FetchOutcomes(n) : FetchStage(outs)
     \/ NormalizeStage
     \/ ImportantStage
     \/ LeaderStage
     \/ \E now \in Nows : UrgentStage(now)
     \/ ChatStage
     \/ \E outcome \in SendOutcomes : SendStage(outcome)
     \/ Finish

NoFun == [fn |-> "none"]
Pending == [exc |-> "pending", val |-> 0]

\* no request is being handled
HandlerIdle ==
  /\ pc = "idle"
  /\ req = NoReq
  /\ webhook_data = None
  /\ task_id = None
  /\ auth_data = None
  /\ attempts = <<>>
  /\ full_task_data = None
  /\ task_data = None
  /\ telegram_chat_id = None
  /\ calls = <<>>
  /\ posts = <<>>
  /\ resp = NoResp

\* the service has started: a configuration, a mappings file, no request yet
Init ==
  /\ file \in InitFiles
  /\ adm = NoAdm
  /\ nadm = 0
  /\ procs = NoProcs
  /\ cfg \in Cfgs
  /\ HandlerIdle
  /\ fin = NoFun
  /\ fout = Pending

Next == Handler

Spec == Init /\ [][Next]_vars

(***************************************************************************)
(* The identity store driven from manage_mappings.py alone, one command    *)
(* after the other (no other writer)                                       *)
(***************************************************************************)
DefaultCfg == [domain |-> <<>>, token |-> <<"gu3ck">>, bot_token |-> TRUE]

InitStore ==
  /\ file \in InitFiles
  /\ adm = NoAdm
  /\ nadm = 0
  /\ procs = NoProcs
  /\ cfg = DefaultCfg
  /\ HandlerIdle
  /\ fin = NoFun
  /\ fout = Pending

NextStore == StoreOp

SpecStore == InitStore /\ [][NextStore]_vars

(***************************************************************************)
(* The service started on a mappings file that is missing, unreadable or   *)
(* not of the expected shape; a store command runs between requests        *)
(***************************************************************************)
BrokenFiles ==
  { [kind |-> "missing", doc |-> EmptyMappings],
    [kind |-> "unreadable", doc |-> EmptyMappings],
    [kind |-> "garbage", doc |-> EmptyMappings],
    [kind |-> "list", doc |-> EmptyMappings] }

InitBroken ==
  /\ file \in BrokenFiles
  /\ adm = NoAdm
  /\ nadm = 0
  /\ procs = NoProcs
  /\ cfg = DefaultCfg
  /\ HandlerIdle
  /\ fin = NoFun
  /\ fout = Pending

\* one store command, run while no request is being handled
StoreOpIdle == pc = "idle" /\ nadm = 0 /\ StoreOp

NextBroken == Handler \/ StoreOpIdle

SpecBroken == InitBroken /\ [][NextBroken]_vars

(***************************************************************************)
(* Store operations of two processes interleaved step by step: the load    *)
(* (open, json.load), the open for writing (which truncates the file) and  *)
(* the write (json.dump) are separate steps.  A webhook request stands     *)
(* before its leader check meanwhile.                                      *)
(***************************************************************************)
S300 == <<"3", "0", "0">>

\* the file at the start: two leaders, one chat mapping
ConcFile ==
  [kind |-> "json", doc |-> [leaders |-> <<Str(S100), Str(S300)>>, telegram_chats |-> Chats200]]

\* the commands run: mutations with different targets, and a lookup
ConcCmds ==
  { [op |-> "add_leader", uid |-> Str(S200), chat |-> None],
    [op |-> "remove_leader", uid |-> Str(S300), chat |-> None],
    [op |-> "add_telegram_mapping", uid |-> Str(S100), chat |-> Str(S777)],
    [op |-> "is_leader", uid |-> Str(S100), chat |-> None] }

RECURSIVE SumLens(_)
SumLens(lst) ==
  IF lst = <<>> THEN 0
  ELSE Len(PyStr(lst[1])) + (IF lst[1].t = "str" THEN 2 ELSE 0) + 6 + SumLens(Tail(lst))

RECURSIVE SumChats(_, _)
SumChats(d, keys) ==
  IF keys = {} THEN 0
  ELSE LET k == CHOOSE x \in keys : TRUE
       IN Len(k) + Len(PyStr(d[k])) + 12 + SumChats(d, keys \ {k})

\* the length of the text json.dump(mappings, f, indent=2) writes, less the part
\* every document has
DocSize(doc) ==
  (IF doc.leaders = <<>> THEN 2 ELSE 4 + SumLens(doc.leaders))
  + (IF DOMAIN doc.telegram_chats = {} THEN 2
     ELSE 4 + SumChats(doc.telegram_chats, DOMAIN doc.telegram_chats))

\* open(MAPPINGS_FILE, "w"): the file is emptied
Truncated == [kind |-> "garbage", doc |-> EmptyMappings]

\* json.dump into a file opened before: the text goes over the start of what
\* another writer wrote since; a longer text of the other keeps its tail and the
\* file is no JSON any more
WriteOver(f, doc) ==
  IF f.kind = "json" /\ DocSize(f.doc) > DocSize(doc) THEN Truncated
  ELSE [kind |-> "json", doc |-> doc]

Done(p) == procs[p].pc = "done"

\* the command starts and runs _load_mappings; a lookup returns, a mutation that
\* has nothing to change returns true, another one has its document to save
PLoad(p, cmd) ==
  /\ procs[p].pc = "idle"
  /\ file' = file
  /\ procs' = [procs EXCEPT ![p] =
       [ pc |-> IF \/ cmd.op = "is_leader"
                   \/ cmd.op = "add_leader" /\ ~AddLeaderWrites(file, cmd.uid)
                   \/ cmd.op = "remove_leader" /\ ~RemoveLeaderWrites(file, cmd.uid)
                THEN "done" ELSE "loaded",
         op |-> cmd.op, uid |-> cmd.uid, chat |-> cmd.chat,
         doc |-> CASE cmd.op = "add_leader" -> AddLeaderDoc(file, cmd.uid)
                   [] cmd.op = "remove_leader" /\ RemoveLeaderWrites(file, cmd.uid) ->
                        RemoveLeaderDoc(file, cmd.uid)
                   [] cmd.op = "add_telegram_mapping" ->
                        AddTelegramMappingDoc(file, cmd.uid, cmd.chat)
                   [] OTHER -> LoadMappings(file),
         partial |-> file.kind = "garbage",
         after |-> {q \in Procs : Done(q)},
         ret |-> IF cmd.op = "is_leader" THEN Bool(IsLeader(file, cmd.uid))
                 ELSE IF \/ cmd.op = "add_leader" /\ ~AddLeaderWrites(file, cmd.uid)
                         \/ cmd.op = "remove_leader" /\ ~RemoveLeaderWrites(file, cmd.uid)
                      THEN Bool(TRUE) ELSE None ]]

\* _save_mappings, open(..., "w"): the file is truncated, or IOError -> False
POpen(p, io_ok) ==
  /\ procs[p].pc = "loaded"
  /\ IF io_ok
     THEN /\ file' = Truncated
          /\ procs' = [procs EXCEPT ![p].pc = "opened"]
     ELSE /\ file' = file
          /\ procs' = [procs EXCEPT ![p].pc = "done", ![p].ret = Bool(FALSE)]

\* _save_mappings, json.dump and close: the document is in the file -> True
PWrite(p) ==
  /\ procs[p].pc = "opened"
  /\ file' = WriteOver(file, procs[p].doc)
  /\ procs' = [procs EXCEPT ![p].pc = "done", ![p].ret = Bool(TRUE)]

ProcStep ==
  /\ UNCHANGED <<adm, nadm, hvars, fvars>>
  /\ \/ \E p \in Procs, cmd \in ConcCmds : PLoad(p, cmd)
     \/ \E p \in Procs, io_ok \in BOOLEAN : POpen(p, io_ok)
     \/ \E p \in Procs : PWrite(p)

\* the rest of a request from the leader check on
HandlerTail ==
  /\ UNCHANGED <<storevars, fvars>>
  /\ \/ LeaderStage
     \/ \E now \in Nows : UrgentStage(now)
     \/ ChatStage
     \/ \E outcome \in SendOutcomes : SendStage(outcome)

\* the request: a task-creation event for task 1, which the CRM returns as an
\* important, urgent task created by the leader 100 for user 200
ConcRequest ==
  [method |-> "POST", is_json |-> TRUE, body |-> JsonBody(Envelope(W_OnTaskAdd, Id1, AccessToken))]
ConcTask == Map(RestTask(Str(<<"2">>), Str(<<"3">>), Str(S100), Str(S200), Str(<<"a", "&", "b">>)))

\* the handler after the importance filter let the task through
AtLeaderCheck ==
  /\ pc = "leader"
  /\ req = ConcRequest
  /\ webhook_data = ParseRequest(ConcRequest).val
  /\ task_id = Str(<<"1">>)
  /\ auth_data = AccessToken
  /\ attempts = <<[method |-> "oauth", kind |-> "task"]>>
  /\ full_task_data = ConcTask
  /\ task_data = ExtractTaskData(Map("data" :> Map("FIELDS_AFTER" :> ConcTask)), cfg.domain).val
  /\ telegram_chat_id = None
  /\ calls = << [fn |-> "get_task_from_bitrix24", ret |-> ConcTask],
                [fn |-> "extract_task_data", ret |-> Bool(TRUE)],
                [fn |-> "is_task_important", ret |-> Bool(TRUE)] >>
  /\ posts = <<>>
  /\ resp = NoResp

InitConc ==
  /\ file = ConcFile
  /\ adm = NoAdm
  /\ nadm = 0
  /\ procs = NoProcs
  /\ cfg = DefaultCfg
  /\ AtLeaderCheck
  /\ fin = NoFun
  /\ fout = Pending

NextConc == ProcStep \/ HandlerTail

SpecConc == InitConc /\ [][NextConc]_vars

(***************************************************************************)
(* Store commands, each run to its end, between the stages of a request    *)
(* that stands before its leader check                                     *)
(***************************************************************************)
InitFresh ==
  /\ file = StartFile
  /\ adm = NoAdm
  /\ nadm = 0
  /\ procs = NoProcs
  /\ cfg = DefaultCfg
  /\ AtLeaderCheck
  /\ fin = NoFun
  /\ fout = Pending

NextFresh == StoreOp \/ HandlerTail

SpecFresh == InitFresh /\ [][NextFresh]_vars

(***************************************************************************)
(* Properties of the webhook handler                                       *)
(***************************************************************************)
\* some call before position i is a call of fn whose result is truthy
TrueCallBefore(i, fn) ==
  \E j \in 1..(i - 1) : calls[j].fn = fn /\ Truthy(calls[j].ret)

Sent == \E i \in 1..Len(calls) : calls[i].fn = "send_task_notification"

\* C1: send_task_notification is called, and a message posted, only after, in
\* the same invocation, the CRM fetch returned task data, is_task_important,
\* is_leader and is_task_urgent returned true and get_telegram_chat_id returned
\* a non-empty chat id.
C1_DispatchOnlyAfterAllGates ==
  /\ \A i \in 1..Len(calls) :
       calls[i].fn = "send_task_notification" =>
         /\ TrueCallBefore(i, "get_task_from_bitrix24")
         /\ TrueCallBefore(i, "is_task_important")
         /\ TrueCallBefore(i, "is_leader")
         /\ TrueCallBefore(i, "is_task_urgent")
         /\ TrueCallBefore(i, "get_telegram_chat_id")
  /\ posts # <<>> => Sent

C1_Witness == pc = "done" /\ Sent /\ posts # <<>>

\* the task was fetched and normalized in this invocation
Normalized ==
  \E i \in 1..Len(calls) : calls[i].fn = "extract_task_data" /\ Truthy(calls[i].ret)

\* the stored leader list and chat mapping, read directly from the file
StoredLeaders == IF file.kind = "json" THEN file.doc.leaders ELSE <<>>
StoredChats == IF file.kind = "json" THEN file.doc.telegram_chats ELSE <<>>

\* the case of C2: an answered request whose task has status "2" and priority
\* "3", a creator in the leader set and a responsible user mapped to a chat
C2_Case ==
  /\ pc = "done"
  /\ Normalized
  /\ task_data.status = <<"2">>
  /\ task_data.priority = <<"3">>
  /\ 3 >= URGENT_PRIORITY_THRESHOLD
  /\ \E i \in 1..Len(StoredLeaders) : PyStr(StoredLeaders[i]) = task_data.creator_id
  /\ task_data.responsible_id \in DOMAIN StoredChats
  /\ Truthy(StoredChats[task_data.responsible_id])

\* the title the CRM gave the task
RawTitle == PyStr(Probe2(full_task_data.v, "TITLE", "title"))

SentToResponsible ==
  \E i \in 1..Len(calls) :
    /\ calls[i].fn = "send_task_notification"
    /\ calls[i].chat_id = StoredChats[task_data.responsible_id]

SendSucceeded ==
  \E i \in 1..Len(calls) : calls[i].fn = "send_task_notification" /\ calls[i].ret = Bool(TRUE)

Pipeline ==
  << "is_task_important", "is_leader", "is_task_urgent", "get_telegram_chat_id",
     "send_task_notification" >>

GateMessage(fn) ==
  CASE fn = "is_task_important" -> "Task not important"
    [] fn = "is_leader" -> "Creator not a leader"
    [] fn = "is_task_urgent" -> "Task not urgent"
    [] OTHER -> "No Telegram mapping for responsible user"

\* the calls made after normalization
PipelineCalls == SelectSeq(calls, LAMBDA c : \E k \in 1..Len(Pipeline) : Pipeline[k] = c.fn)

\* C3: the gates are called in the order importance, leadership, urgency, then
\* the chat-id lookup and the dispatch; a call is made only when every earlier
\* one returned true; when a gate returns false the request is answered 200 with
\* that gate's message and nothing later is called.  A task that is important
\* and urgent whose creator is not a leader is answered "Creator not a leader"
\* without an urgency check, a lookup or a dispatch.
C3_GatesInOrder ==
  /\ Len(PipelineCalls) <= Len(Pipeline)
  /\ \A k \in 1..Len(PipelineCalls) :
       /\ PipelineCalls[k].fn = Pipeline[k]
       /\ k < Len(PipelineCalls) => Truthy(PipelineCalls[k].ret)
       /\ (k <= 3 /\ ~Truthy(PipelineCalls[k].ret)) =>
            /\ pc = "done"
            /\ resp = [status |-> 200, message |-> GateMessage(Pipeline[k])]
  /\ (pc = "done" /\ resp.message \in {GateMessage(Pipeline[1]), GateMessage(Pipeline[2]),
                                       GateMessage(Pipeline[3])}) =>
       /\ Len(PipelineCalls) \in 1..3
       /\ ~Truthy(PipelineCalls[Len(PipelineCalls)].ret)
       /\ resp.message = GateMessage(Pipeline[Len(PipelineCalls)])
  /\ (pc = "done" /\ Normalized
        /\ IsTaskImportant(full_task_data.v) = Ok(TRUE)
        /\ \A now \in Nows : IsTaskUrgent(full_task_data.v, now) = Ok(TRUE)
        /\ \A i \in 1..Len(StoredLeaders) : PyStr(StoredLeaders[i]) # task_data.creator_id) =>
       /\ resp = [status |-> 200, message |-> "Creator not a leader"]
       /\ Len(PipelineCalls) = 2
       /\ posts = <<>>

C3_Witness ==
  /\ pc = "done"
  /\ Normalized
  /\ IsTaskImportant(full_task_data.v) = Ok(TRUE)
  /\ \A now \in Nows : IsTaskUrgent(full_task_data.v, now) = Ok(TRUE)
  /\ resp = [status |-> 200, message |-> "Creator not a leader"]

\* C4: a response other than 200 is the 400 of an unparseable body or the 500
\* of a failed dispatch.
C4_Claim ==
  (pc = "done" /\ resp.status # 200) =>
     \/ resp = [status |-> 400, message |-> "Could not parse request data"]
     \/ resp = [status |-> 500, message |-> "Failed to send notification"]

\* C5: a POST whose body is malformed JSON, with no form data and no key=value
\* pair, is answered 400.
C5_Claim ==
  (pc = "done" /\ req.method = "POST" /\ req.body.kind = "malformed") =>
     resp = [status |-> 400, message |-> "Could not parse request data"]

(***************************************************************************)
(* The pure functions of app.py applied to arguments drawn from bounded    *)
(* sets: is_task_important, is_task_urgent, extract_task_data              *)
(***************************************************************************)
StatusKeys == <<"STATUS", "status", "Status">>
FlagKeys == <<"IMPORTANT", "important", "Important">>
IsImportantKeys == <<"isImportant", "IS_IMPORTANT", "is_important">>
StatusIdKeys == <<"STATUS_ID", "statusId", "status_id">>
PriorityKeys == <<"PRIORITY", "priority", "Priority">>
DeadlineKeys == <<"DEADLINE", "deadline", "Deadline">>

Range(seq) == {seq[i] : i \in 1..Len(seq)}

\* the dicts holding at most one of the keys, with one of the values
Frags(keys, vals) == { <<>> } \cup { k :> v : k \in Range(keys), v \in vals }

StatusVals ==
  { Str(W_important), Str(<<"V", "e", "r", "y", " ", "I", "M", "P", "O", "R", "T", "A", "N", "T">>),
    Str(W_vazhno), Str(<<"CYR_V", "CYR_A", "CYR_ZH", "CYR_N", "CYR_O">>),
    Str(<<"2">>), Str(<<"5">>), Num(2) }
FlagVals ==
  { Str(<<"1">>), Str(<<"T", "R", "U", "E">>), Str(<<"y", "e", "s">>), Str(<<"y">>),
    Str(W_important), Str(<<"n", "o">>), Bool(TRUE), Num(1) }
StatusIdVals == { Str(<<"2">>), Str(<<"3">>), Str(<<"4">>), Num(3) }
PriorityVals == { Str(<<"1">>), Str(<<"2">>), Str(<<"3">>), Num(2), Str(<<"h", "i", "g", "h">>) }

Pairs(A, B) == { a @@ b : a \in A, b \in B }

\* task dicts for is_task_important: fields of at most two kinds, each under any
\* of its spellings, and dicts holding one field under two spellings
ImportantTasks ==
  Pairs(Frags(StatusKeys, StatusVals), Frags(FlagKeys \o IsImportantKeys, FlagVals))
  \cup Pairs(Frags(StatusKeys, StatusVals), Frags(StatusIdKeys, StatusIdVals))
  \cup Pairs(Frags(StatusKeys, StatusVals), Frags(PriorityKeys, PriorityVals))
  \cup Pairs(Frags(FlagKeys \o IsImportantKeys, FlagVals), Frags(StatusIdKeys, StatusIdVals))
  \cup Pairs(Frags(StatusIdKeys, StatusIdVals), Frags(PriorityKeys, PriorityVals))
  \cup { ("STATUS" :> a) @@ ("status" :> b) : a \in {EmptyStr, Str(<<"5">>)}, b \in StatusVals }
  \cup { ("IMPORTANT" :> a) @@ ("important" :> b) : a \in {EmptyStr, Num(0)}, b \in FlagVals }

\* priorities for is_task_urgent: what json.loads can put under the key
UrgentPriorityVals ==
  { Str(<<"1">>), Str(<<"2">>), Str(<<"3">>), Num(1), Num(2), Str(<<"h", "i", "g", "h">>),
    Str(<<" ", "2">>), EmptyStr, EmptyMap, None, Bool(TRUE), FloatInf }

\* deadlines: at now, the window ahead, a second more, a second past; the other
\* layouts; an offset layout strptime has no format for; text; a number
UrgentDeadlineVals ==
  { Deadline(Now0), Deadline(Now0 + 1), Deadline(Now0 + URGENT_DEADLINE_HOURS * 3600),
    Deadline(Now0 + URGENT_DEADLINE_HOURS * 3600 + 1),
    Deadline(Now0 + URGENT_DEADLINE_HOURS * 3600 + 2), Deadline(Now0 - 1),
    Str(<<"%d.%m.%Y">> \o DecStr(Now0 + 3600)),
    Str(<<"%Y-%m-%dT%H:%M:%SZ">> \o DecStr(Now0 + 3600)),
    Str(<<"%Y-%m-%dT%H:%M:%S+03:00">> \o DecStr(Now0 + 3600)),
    Str(<<"s", "o", "o", "n">>), Num(5), EmptyStr }

UrgentTasks == Pairs(Frags(PriorityKeys, UrgentPriorityVals), Frags(DeadlineKeys, UrgentDeadlineVals))

\* the content of a task: every field a str, as a form post carries it
Contents ==
  [ id : {<<"1">>}, title : {<<"a">>, <<>>}, priority : {<<"2">>, <<>>},
    deadline : {Deadline(Now0).v, <<>>}, responsible_id : {S200},
    responsible_name : {<<"B", "o", "b">>, <<>>}, creator_id : {S100},
    creator_name : {<<"A", "n", "n">>, <<>>}, status : {<<"2">>} ]

NoContent == [id |-> <<>>]

\* the content under the upper-case keys
UpperFields(c) ==
  ("ID" :> Str(c.id)) @@ ("TITLE" :> Str(c.title)) @@ ("PRIORITY" :> Str(c.priority))
    @@ ("DEADLINE" :> Str(c.deadline)) @@ ("RESPONSIBLE_ID" :> Str(c.responsible_id))
    @@ ("RESPONSIBLE_NAME" :> Str(c.responsible_name)) @@ ("CREATED_BY" :> Str(c.creator_id))
    @@ ("CREATED_BY_NAME" :> Str(c.creator_name)) @@ ("STATUS" :> Str(c.status))

\* the content under the camelCase keys of tasks.task.get
CamelFields(c) ==
  ("id" :> Str(c.id)) @@ ("title" :> Str(c.title)) @@ ("priority" :> Str(c.priority))
    @@ ("deadline" :> Str(c.deadline)) @@ ("responsibleId" :> Str(c.responsible_id))
    @@ ("responsibleName" :> Str(c.responsible_name)) @@ ("createdBy" :> Str(c.creator_id))
    @@ ("createdByName" :> Str(c.creator_name)) @@ ("status" :> Str(c.status))

FieldKey(name) == <<"data", "[", "FIELDS_AFTER", "]", "[", name, "]">>

\* the content as form fields data[FIELDS_AFTER][ID]=...&data[FIELDS_AFTER][TITLE]=...
BracketFields(c) ==
  << <<FieldKey("ID"), c.id>>, <<FieldKey("TITLE"), c.title>>,
     <<FieldKey("PRIORITY"), c.priority>>, <<FieldKey("DEADLINE"), c.deadline>>,
     <<FieldKey("RESPONSIBLE_ID"), c.responsible_id>>,
     <<FieldKey("RESPONSIBLE_NAME"), c.responsible_name>>,
     <<FieldKey("CREATED_BY"), c.creator_id>>, <<FieldKey("CREATED_BY_NAME"), c.creator_name>>,
     <<FieldKey("STATUS"), c.status>> >>

\* task records for send_task_notification: titles and creator names with and
\* without markup characters, the two kinds of link
RenderRecords ==
  [ title : { <<"a">>, <<"a", "&", "b">>, <<"<", "b", ">">>, <<"&", "l", "t", ";">>,
              <<"x", ">", "<", "&">> },
    creator_name : { <<"A", "n", "n">>, <<"A", "&", "B">>, <<"<", "i", ">">>, <<>> },
    link : { TaskLink(<<>>, Str(S200), Str(<<"1">>)),
             TaskLink(<<"https://", "b24.example">>, Str(S200), Str(<<"1">>)) } ]

\* task fields under upper-case keys, with the given id
TaskFields(id) ==
  ("ID" :> Str(id)) @@ ("TITLE" :> Str(<<"a">>)) @@ ("RESPONSIBLE_ID" :> Str(S200))
    @@ ("CREATED_BY" :> Str(S100))

\* a task as tasks.task.get gives it, with nested responsible and creator objects
NestedPeople ==
  ("id" :> Str(<<"1">>))
    @@ ("responsible" :> Map(("id" :> Str(S200)) @@ ("name" :> Str(<<"B", "o", "b">>))))
    @@ ("creator" :> Map("id" :> Str(S100)))

\* a task whose fields have other types than str
OddlyTyped ==
  ("ID" :> Num(1)) @@ ("TITLE" :> Num(5)) @@ ("PRIORITY" :> None) @@ ("DEADLINE" :> EmptyMap)
    @@ ("RESPONSIBLE_ID" :> Num(200)) @@ ("responsible" :> Str(<<"x">>))
    @@ ("CREATED_BY" :> List(<<>>)) @@ ("creator" :> Num(7)) @@ ("STATUS" :> Bool(TRUE))

\* payloads for extract_task_data: the task at the root, under data, under
\* data.FIELDS_AFTER, at two places at once; "undefined" and other values that
\* are not dicts where a dict is expected; tasks with fields missing
ExtractPayloads ==
  { Map(TaskFields(<<"1">>)),
    Map("data" :> Map("FIELDS_AFTER" :> Map(TaskFields(<<"1">>)))),
    Map("data" :> Map(TaskFields(<<"1">>))),
    Map("data" :> Map(("FIELDS_AFTER" :> Str(W_undefined)) @@ TaskFields(<<"1">>))),
    Map("data" :> Map(("FIELDS_AFTER" :> Map(TaskFields(<<"2">>))) @@ TaskFields(<<"1">>))),
    Map(("data" :> Map("FIELDS_AFTER" :> Map(TaskFields(<<"2">>)))) @@ TaskFields(<<"1">>)),
    Map("data" :> Str(W_undefined)),
    Map("data" :> EmptyMap),
    Map("data" :> None),
    EmptyMap,
    Map("data" :> Map("FIELDS_AFTER" :> Str(<<"a", "b", "c">>))),
    Map("data" :> Map("FIELDS_AFTER" :> List(<<Num(1)>>))),
    Map("data" :> Map("FIELDS_AFTER" :> Map("TITLE" :> Str(<<"x">>)))),
    Map("data" :> Map("FIELDS_AFTER" :> EmptyMap)),
    Map("data" :> Map("FIELDS_AFTER" :> Map(NestedPeople))),
    Map("data" :> Map("FIELDS_AFTER" :> Map(OddlyTyped))) }

\* configurations for get_task_from_bitrix24: those of the service, and one
\* whose BITRIX24_AUTH_TOKEN has two "/"
FetchCfgs ==
  Cfgs \cup { [domain |-> <<>>, token |-> <<"7", "/", "k", "/", "y">>, bot_token |-> TRUE] }
FetchAuths ==
  { <<>>, AccessToken.v, BothTokens.v, "application_token" :> Str(<<"a">>),
    ("access_token" :> EmptyStr) @@ ("application_token" :> Str(<<"a">>)) }
FetchIds == { Str(<<"1">>), EmptyStr, None }
\* the answers n attempts can get, each on its own
AnswerSets(n) ==
  [1..n -> { [kind |-> fk, task |-> None] : fk \in FailKinds }
           \cup { [kind |-> "task",
                   task |-> Map(RestTask(Str(<<"2">>), Str(<<"3">>), Str(S100), Str(S200), Str(<<t>>)))] :
                    t \in {"a", "b"} }]
FetchInputs ==
  { [fn |-> "get_task_from_bitrix24", task |-> tid, now |-> 0,
     content |-> [auth |-> ad, outs |-> outs]] :
      tid \in FetchIds, ad \in FetchAuths, outs \in AnswerSets(3) }

\* data[FIELDS_AFTER][ID]=1&data[FIELDS_AFTER][TITLE]=x&data[FIELDS_BEFORE][ID]=1
SharedPrefixPairs ==
  << << <<"data", "[", "FIELDS_AFTER", "]", "[", "ID", "]">>, <<"1">> >>,
     << <<"data", "[", "FIELDS_AFTER", "]", "[", "TITLE", "]">>, <<"x">> >>,
     << <<"data", "[", "FIELDS_BEFORE", "]", "[", "ID", "]">>, <<"1">> >> >>

\* data[FIELDS_AFTER][ID]=1&data[FIELDS_AFTER][TITLE]=
BlankPairs ==
  << << <<"data", "[", "FIELDS_AFTER", "]", "[", "ID", "]">>, <<"1">> >>,
     << <<"data", "[", "FIELDS_AFTER", "]", "[", "TITLE", "]">>, <<>> >> >>

\* data[FIELDS_AFTER][TITLE]=%2541 (the text %41, percent-encoded)
EscapedPairs ==
  << << <<"data", "[", "FIELDS_AFTER", "]", "[", "TITLE", "]">>, <<"%", "2", "5", "4", "1">> >>,
     << <<"event">>, W_OnTaskAdd >> >>

PairSets == { BracketPairs, SharedPrefixPairs, BlankPairs, EscapedPairs, ClashingPairs }

Reverse(seq) == [i \in 1..Len(seq) |-> seq[Len(seq) + 1 - i]]

\* the ways the endpoint receives pairs
Carriers == {"form", "qs", "get"}
CarrierRequest(carrier, pairs) ==
  IF carrier = "get"
  THEN [method |-> "GET", is_json |-> FALSE, body |-> PairsBody("qs", pairs)]
  ELSE [method |-> "POST", is_json |-> FALSE, body |-> PairsBody(carrier, pairs)]

ParseInputs ==
  { [fn |-> "webhook_tasks, request parsing", task |-> [t |-> "pairs", v |-> ps], now |-> 0,
     content |-> NoContent] :
      ps \in PairSets }

PureInputs ==
  FetchInputs \cup ParseInputs \cup
  { [fn |-> "extract_task_data on a payload", task |-> t, now |-> 0, content |-> NoContent] :
      t \in ExtractPayloads }
  \cup
  { [fn |-> "send_task_notification", task |-> t, now |-> 0, content |-> NoContent] :
      t \in RenderRecords }
  \cup
  { [fn |-> "is_task_important", task |-> t, now |-> 0, content |-> NoContent] :
      t \in ImportantTasks }
  \cup { [fn |-> "is_task_urgent", task |-> t, now |-> n, content |-> NoContent] :
           t \in UrgentTasks, n \in Nows }
  \cup { [fn |-> "extract_task_data", task |-> <<>>, now |-> 0, content |-> c] :
           c \in Contents }

ApplyImportant ==
  /\ fin.fn = "is_task_important"
  /\ fout = Pending
  /\ fout' = IsTaskImportant(fin.task)
  /\ UNCHANGED <<fin, storevars, hvars>>

ApplyUrgent ==
  /\ fin.fn = "is_task_urgent"
  /\ fout = Pending
  /\ fout' = IsTaskUrgent(fin.task, fin.now)
  /\ UNCHANGED <<fin, storevars, hvars>>

\* extract_task_data on the payload of each of the four shapes, as the parsing
\* code hands it on
ApplyExtract ==
  /\ fin.fn = "extract_task_data"
  /\ fout = Pending
  /\ fout' =
       [ flat_upper |-> ExtractTaskData(Map(UpperFields(fin.content)), cfg.domain),
         flat_camel |-> ExtractTaskData(Map(CamelFields(fin.content)), cfg.domain),
         nested |-> ExtractTaskData(
                      Map("data" :> Map("FIELDS_AFTER" :> Map(UpperFields(fin.content)))),
                      cfg.domain),
         bracket |-> ExtractTaskData(
                       Map(Unflatten(FormItems(BracketFields(fin.content)), <<>>).val),
                       cfg.domain) ]
  /\ UNCHANGED <<fin, storevars, hvars>>

\* the message send_task_notification builds for each event type
ApplyRender ==
  /\ fin.fn = "send_task_notification"
  /\ fout = Pending
  /\ fout' = [new |-> RenderMessage(fin.task, "new"),
              updated |-> RenderMessage(fin.task, "updated")]
  /\ UNCHANGED <<fin, storevars, hvars>>

\* extract_task_data on one payload
ApplyExtractPayload ==
  /\ fin.fn = "extract_task_data on a payload"
  /\ fout = Pending
  /\ fout' = ExtractTaskData(fin.task, cfg.domain)
  /\ UNCHANGED <<fin, storevars, hvars>>

\* get_task_from_bitrix24 with the answers the schemes it has get
ApplyFetch ==
  /\ fin.fn = "get_task_from_bitrix24"
  /\ fout = Pending
  /\ fout' = GetTaskFromBitrix24(
                fin.task, cfg.token, fin.content.auth,
                SubSeq(fin.content.outs, 1, Len(AuthMethods(cfg.token, fin.content.auth))))
  /\ UNCHANGED <<fin, storevars, hvars>>

\* the payload lines 420-500 build from the pairs, for each way of receiving
\* them, in the order sent and in the opposite order
ApplyParse ==
  /\ fin.fn = "webhook_tasks, request parsing"
  /\ fout = Pending
  /\ fout' = [ sent |-> [c \in Carriers |-> ParseRequest(CarrierRequest(c, fin.task.v))],
               reversed |-> [c \in Carriers |->
                              ParseRequest(CarrierRequest(c, Reverse(fin.task.v)))] ]
  /\ UNCHANGED <<fin, storevars, hvars>>

InitPure ==
  /\ file = [kind |-> "missing", doc |-> EmptyMappings]
  /\ adm = NoAdm
  /\ nadm = 0
  /\ procs = NoProcs
  /\ fin \in PureInputs
  /\ cfg \in IF fin.fn = "get_task_from_bitrix24" THEN FetchCfgs ELSE Cfgs
  /\ HandlerIdle
  /\ fout = Pending

NextPure ==
  \/ ApplyImportant \/ ApplyUrgent \/ ApplyExtract \/ ApplyExtractPayload \/ ApplyRender
  \/ ApplyFetch \/ ApplyParse

SpecPure == InitPure /\ [][NextPure]_vars

(***************************************************************************)
(* Properties of the pure functions                                        *)
(***************************************************************************)
\* the value of the first spelling of a field that is present and non-empty
FieldOf(task, keys) ==
  IF \E i \in 1..Len(keys) : keys[i] \in DOMAIN task /\ Truthy(task[keys[i]])
  THEN task[keys[CHOOSE i \in 1..Len(keys) :
                   /\ keys[i] \in DOMAIN task /\ Truthy(task[keys[i]])
                   /\ \A j \in 1..(i - 1) : ~(keys[j] \in DOMAIN task /\ Truthy(task[keys[j]]))]]
  ELSE EmptyStr

Shapes == {"flat_upper", "flat_camel", "nested", "bracket"}
CanonFields ==
  {"id", "title", "priority", "deadline", "responsible_id", "responsible_name",
   "creator_id", "creator_name", "status", "link"}
SameRecord(a, b) == \A f \in CanonFields : a[f] = b[f]

\* C6: payloads of the four shapes with the same content give the same canonical
\* record, and no shape gives "no task" where another gives a record.
C6_Claim ==
  (fin.fn = "extract_task_data" /\ fout # Pending) =>
    \A a \in Shapes, b \in Shapes :
      /\ fout[a].exc = "none" /\ fout[b].exc = "none"
      /\ (fout[a].val = None) <=> (fout[b].val = None)
      /\ (fout[a].val # None /\ fout[b].val # None) => SameRecord(fout[a].val, fout[b].val)

\* the two enveloped shapes do agree
NestedAndBracketAgree ==
  (fin.fn = "extract_task_data" /\ fout # Pending) =>
    /\ fout.nested.exc = "none" /\ fout.bracket.exc = "none"
    /\ fout.nested.val # None /\ fout.bracket.val # None
    /\ SameRecord(fout.nested.val, fout.bracket.val)

StatusMarker(task) ==
  /\ FieldOf(task, StatusKeys).t = "str"
  /\ \/ Contains(Lower(FieldOf(task, StatusKeys).v), W_important)
     \/ Contains(Lower(FieldOf(task, StatusKeys).v), W_vazhno)

FlagMarker(task, tokens) ==
  \/ Lower(PyStr(FieldOf(task, FlagKeys))) \in tokens
  \/ Lower(PyStr(FieldOf(task, IsImportantKeys))) \in tokens

StatusCodeMarker(task) == PyStr(FieldOf(task, StatusIdKeys)) \in { <<"2">>, <<"3">> }

InProgressMarker(task) ==
  /\ \/ PyStr(FieldOf(task, StatusKeys)) = <<"2">>
     \/ PyStr(FieldOf(task, StatusIdKeys)) = <<"2">>
  /\ PyInt(FieldOf(task, PriorityKeys)).exc = "none"
  /\ PyInt(FieldOf(task, PriorityKeys)).val >= 2

Markers(task, tokens) ==
  StatusMarker(task) \/ FlagMarker(task, tokens) \/ StatusCodeMarker(task) \/ InProgressMarker(task)

DeadlineInWindow(task, now) ==
  \E i \in 1..Len(DateFormats) :
    /\ Strptime(PyStr(FieldOf(task, DeadlineKeys)), DateFormats[i]).exc = "none"
    /\ Strptime(PyStr(FieldOf(task, DeadlineKeys)), DateFormats[i]).val
         \in now..(now + URGENT_DEADLINE_HOURS * 3600)

NumericPriorityAtThreshold(task) ==
  /\ PyInt(FieldOf(task, PriorityKeys)).exc = "none"
  /\ PyInt(FieldOf(task, PriorityKeys)).val >= URGENT_PRIORITY_THRESHOLD

\* C8: is_task_urgent is true when the numeric priority is at or above the
\* threshold; otherwise it is true exactly when the deadline parses and lies in
\* [now, now + window]; it never raises, whatever the priority and the deadline.
C8_Claim ==
  (fin.fn = "is_task_urgent" /\ fout # Pending) =>
    fout = Ok(NumericPriorityAtThreshold(fin.task) \/ DeadlineInWindow(fin.task, fin.now))

\* the same for every priority but a float infinity
C8_ButInfinity ==
  (fin.fn = "is_task_urgent" /\ fout # Pending /\ FieldOf(fin.task, PriorityKeys) # FloatInf) =>
    fout = Ok(NumericPriorityAtThreshold(fin.task) \/ DeadlineInWindow(fin.task, fin.now))

(***************************************************************************)
(* Properties of the identity store                                        *)
(***************************************************************************)
\* C9: is_leader(id) is true exactly when the file holds a leader list one of
\* whose elements has the same string form as id; in particular it is false
\* when the file is missing.
C9_IsLeaderIffStringMatch ==
  adm.op = "is_leader" =>
    adm.ret = Bool(/\ file.kind = "json"
                   /\ \E i \in 1..Len(file.doc.leaders) :
                        PyStr(file.doc.leaders[i]) = PyStr(adm.uid))

\* a leader stored as the number 100 is found under the id "100"
C9_Witness ==
  /\ adm.op = "is_leader"
  /\ adm.uid = Str(S100)
  /\ adm.ret = Bool(TRUE)
  /\ file.kind = "json"
  /\ file.doc.leaders = <<Num(100)>>

\* C10: after add_leader(u) returned true is_leader(u) is true, after
\* remove_leader(u) returned true it is false, after add_telegram_mapping(u, c)
\* returned true get_telegram_chat_id(u) is c, and after
\* remove_telegram_mapping(u) returned true it is None.
C10_Claim ==
  adm.ret = Bool(TRUE) =>
    /\ adm.op = "add_leader" => IsLeader(file, adm.uid)
    /\ adm.op = "remove_leader" => ~IsLeader(file, adm.uid)
    /\ adm.op = "add_telegram_mapping" => GetTelegramChatId(file, adm.uid) = adm.chat
    /\ adm.op = "remove_telegram_mapping" => GetTelegramChatId(file, adm.uid) = None

\* C11: on a file that is missing, unreadable or not a well-formed document of
\* the expected shape, is_leader returns false, get_telegram_chat_id returns
\* None, no store operation raises, and a request whose task passed the
\* importance filter is answered 200 "Creator not a leader", not 500.
C11_Claim ==
  file.kind # "json" =>
    /\ adm.op = "is_leader" => adm.ret = Bool(FALSE)
    /\ adm.op = "get_telegram_chat_id" => adm.ret = None
    /\ adm.ret # Raised
    /\ (pc = "done" /\ \E i \in 1..Len(calls) :
                         calls[i].fn = "is_task_important" /\ Truthy(calls[i].ret))
         => resp = [status |-> 200, message |-> "Creator not a leader"]

\* the same for a file that is missing, unreadable or not JSON at all
C11_ButNonObject ==
  file.kind \in {"missing", "unreadable", "garbage"} =>
    /\ adm.op = "is_leader" => adm.ret = Bool(FALSE)
    /\ adm.op = "get_telegram_chat_id" => adm.ret = None
    /\ adm.ret # Raised
    /\ (pc = "done" /\ \E i \in 1..Len(calls) :
                         calls[i].fn = "is_task_important" /\ Truthy(calls[i].ret))
         => resp = [status |-> 200, message |-> "Creator not a leader"]

\* C12: an invocation calls send_task_notification at most once and posts at
\* most one message; a post answered without ok or failing on the network makes
\* send_task_notification return false, with no second post; a false result is
\* answered 500 "Failed to send notification".
C12_OnePostNoRetry ==
  /\ Len(posts) <= 1
  /\ Cardinality({i \in 1..Len(calls) : calls[i].fn = "send_task_notification"}) <= 1
  /\ \A i \in 1..Len(calls) :
       calls[i].fn = "send_task_notification" =>
         /\ (posts # <<>> /\ posts[1].answer # "ok") => calls[i].ret = Bool(FALSE)
         /\ calls[i].ret = Bool(FALSE) =>
              resp = [status |-> 500, message |-> "Failed to send notification"]

\* a post failed on the network and the request was answered 500
C12_Witness ==
  /\ pc = "done"
  /\ Len(posts) = 1
  /\ posts[1].answer = "request_exception"
  /\ resp = [status |-> 500, message |-> "Failed to send notification"]

(***************************************************************************)
(* Properties of the rendered message                                      *)
(***************************************************************************)
RECURSIVE Unescape(_)
\* the text with each entity &amp; &lt; &gt; read back, left to right
Unescape(s) ==
  IF s = <<>> THEN <<>>
  ELSE IF Len(s) >= 5 /\ SubSeq(s, 1, 5) = <<"&", "a", "m", "p", ";">>
       THEN <<"&">> \o Unescape(SubSeq(s, 6, Len(s)))
  ELSE IF Len(s) >= 4 /\ SubSeq(s, 1, 4) = <<"&", "l", "t", ";">>
       THEN <<"<">> \o Unescape(SubSeq(s, 5, Len(s)))
  ELSE IF Len(s) >= 4 /\ SubSeq(s, 1, 4) = <<"&", "g", "t", ";">>
       THEN <<">">> \o Unescape(SubSeq(s, 5, Len(s)))
  ELSE <<s[1]>> \o Unescape(Tail(s))

Count(s, c) == Cardinality({i \in 1..Len(s) : s[i] = c})

\* every "&" starts one of the three entities
OnlyEntities(s) ==
  \A i \in 1..Len(s) :
    s[i] = "&" =>
      \/ i + 4 <= Len(s) /\ SubSeq(s, i, i + 4) = <<"&", "a", "m", "p", ";">>
      \/ i + 3 <= Len(s) /\ SubSeq(s, i, i + 3) \in { <<"&", "l", "t", ";">>, <<"&", "g", "t", ";">> }

\* the text after the first line
AfterFirstLine(s) ==
  SubSeq(s, 1 + (CHOOSE i \in 1..Len(s) : s[i] = "\n" /\ \A j \in 1..(i - 1) : s[j] # "\n"),
         Len(s))

\* the title and the creator name can be read back from the message m
CarriesTexts(m, td) ==
  /\ Contains(Unescape(m), <<"cyr:Ot: ">> \o td.creator_name \o <<"\n">>)
  /\ Contains(Unescape(m), <<"<", "b", ">">> \o td.title \o <<"<", "/", "b", ">">>)

\* C13: in the message every "&", "<", ">" of the title and of the creator name
\* appears only as &amp; &lt; &gt;, with no entity escaped twice, so the tags of
\* the message are those of the template (six "<" and six ">" in the "new"
\* message: <b></b> twice and <a></a>; four in the "updated" message, whose first
\* line has no tag); the two messages differ only in the first line.
C13_EscapedAndSameBody ==
  (fin.fn = "send_task_notification" /\ fout # Pending) =>
    /\ OnlyEntities(fout.new) /\ OnlyEntities(fout.updated)
    /\ Count(fout.new, "<") = 6 /\ Count(fout.new, ">") = 6
    /\ Count(fout.updated, "<") = 4 /\ Count(fout.updated, ">") = 4
    /\ CarriesTexts(fout.new, fin.task) /\ CarriesTexts(fout.updated, fin.task)
    /\ AfterFirstLine(fout.new) = AfterFirstLine(fout.updated)
    /\ fout.new # fout.updated

\* a title that already holds an entity, and a creator name with a tag, rendered
C13_Witness ==
  /\ fin.fn = "send_task_notification"
  /\ fout # Pending
  /\ fin.task.title = <<"&", "l", "t", ";">>
  /\ fin.task.creator_name = <<"<", "i", ">">>

(***************************************************************************)
(* Properties of extract_task_data on single payloads                      *)
(***************************************************************************)
\* x holds task data: a non-empty dict (the string "undefined" does not)
HoldsTask(x) == x.t = "map" /\ DOMAIN x.v # {}

\* the three places a payload can hold the task at
AtFieldsAfter(wd) ==
  IF HoldsTask(wd) /\ HoldsTask(Get(wd.v, "data")) THEN Get(Get(wd.v, "data").v, "FIELDS_AFTER")
  ELSE None
AtData(wd) == IF HoldsTask(wd) THEN Get(wd.v, "data") ELSE None
AtRoot(wd) == wd

\* the first of the three places that holds task data, None when none does
TaskPlace(wd) ==
  IF HoldsTask(AtFieldsAfter(wd)) THEN AtFieldsAfter(wd)
  ELSE IF HoldsTask(AtData(wd)) THEN AtData(wd)
  ELSE IF HoldsTask(AtRoot(wd)) THEN AtRoot(wd)
  ELSE None

\* C14: extract_task_data takes the task from data.FIELDS_AFTER, else from data,
\* else from the payload root, a value "undefined" counting as absent; it returns
\* None only when none of the three holds task data, and never raises.
C14_Claim ==
  (fin.fn = "extract_task_data on a payload" /\ fout # Pending) =>
    /\ fout.exc = "none"
    /\ fout.val = None <=> TaskPlace(fin.task) = None
    /\ fout.val # None => fout.val.raw_data = TaskPlace(fin.task)

\* what does hold: the task is taken from data.FIELDS_AFTER, else from data
C14_EnvelopeOnly ==
  (fin.fn = "extract_task_data on a payload" /\ fout.exc = "none") =>
    /\ fout.val # None =>
         /\ fout.val.raw_data \in {AtFieldsAfter(fin.task), AtData(fin.task)}
         /\ HoldsTask(AtFieldsAfter(fin.task)) => fout.val.raw_data = AtFieldsAfter(fin.task)
    /\ fout.val = None => ~HoldsTask(AtData(fin.task))

\* C15: a record returned by extract_task_data has a non-empty id and a
\* non-empty responsible_id; its title is never empty, a display name that is
\* absent is replaced by the id, the link is "#task_<id>" when no domain is
\* configured; and a task dict with fields missing or of other types than str
\* does not make extract_task_data raise.
C15_Claim ==
  (fin.fn = "extract_task_data on a payload" /\ fout # Pending) =>
    /\ (fout.exc = "none" /\ fout.val # None) =>
         /\ fout.val.id # <<>>
         /\ fout.val.responsible_id # <<>>
         /\ fout.val.title # <<>>
         /\ fout.val.responsible_name = <<>> => fout.val.responsible_id = <<>>
         /\ fout.val.creator_name = <<>> => fout.val.creator_id = <<>>
         /\ cfg.domain = <<>> => fout.val.link = <<"#", "t", "a", "s", "k", "_">> \o fout.val.id
    /\ HoldsTask(AtFieldsAfter(fin.task)) => fout.exc = "none"

\* the same without the two ids being non-empty
C15_ButIds ==
  (fin.fn = "extract_task_data on a payload" /\ fout # Pending) =>
    /\ (fout.exc = "none" /\ fout.val # None) =>
         /\ fout.val.title # <<>>
         /\ fout.val.responsible_name = <<>> => fout.val.responsible_id = <<>>
         /\ fout.val.creator_name = <<>> => fout.val.creator_id = <<>>
         /\ cfg.domain = <<>> => fout.val.link = <<"#", "t", "a", "s", "k", "_">> \o fout.val.id
    /\ HoldsTask(AtFieldsAfter(fin.task)) => fout.exc = "none"

(***************************************************************************)
(* Properties of store operations running at the same time                 *)
(***************************************************************************)
Mutations == {"add_leader", "remove_leader", "add_telegram_mapping"}

\* process p is a mutation that has returned true
ReturnedTrue(p) == Done(p) /\ procs[p].op \in Mutations /\ procs[p].ret = Bool(TRUE)

\* the file holds what the mutation of p asked for
EffectIn(p) ==
  /\ file.kind = "json"
  /\ CASE procs[p].op = "add_leader" -> InList(procs[p].uid, file.doc.leaders)
       [] procs[p].op = "remove_leader" -> ~InList(procs[p].uid, file.doc.leaders)
       [] procs[p].op = "add_telegram_mapping" ->
            Get(file.doc.telegram_chats, PyStr(procs[p].uid)) = procs[p].chat
       [] OTHER -> TRUE

\* q began (loaded) when p had returned
RanAfter(q, p) == p \in procs[q].after

\* C16: when two mutations have both returned true and one ran after the other,
\* the file holds the effects of both; a file that holds the effect of only one
\* of them comes from two mutations none of which ran after the other
C16_LostOnlyWhenOverlapping ==
  \A p \in Procs : \A q \in Procs \ {p} :
    ReturnedTrue(p) /\ ReturnedTrue(q) =>
      /\ RanAfter(q, p) => EffectIn(p) /\ EffectIn(q)
      /\ file.kind = "json" /\ ~EffectIn(p) => ~RanAfter(q, p) /\ ~RanAfter(p, q)

\* two mutations ran at the same time, both returned true, the file is a
\* well-formed document and holds the effect of one of them only
C16_Witness ==
  \E p \in Procs : \E q \in Procs \ {p} :
    /\ ReturnedTrue(p) /\ ReturnedTrue(q)
    /\ ~RanAfter(q, p) /\ ~RanAfter(p, q)
    /\ file.kind = "json" /\ ~EffectIn(p) /\ EffectIn(q)

\* two mutations ran one after the other and both returned true
C16_Sequential ==
  \E p \in Procs : \E q \in Procs \ {p} :
    ReturnedTrue(p) /\ ReturnedTrue(q) /\ RanAfter(q, p) /\ procs[p].op # procs[q].op

\* the request of the concurrent runs stands before its leader check
ConcStartReached == AtLeaderCheck /\ cfg = DefaultCfg

(***************************************************************************)
(* Properties of get_task_from_bitrix24                                    *)
(***************************************************************************)
Schemes == <<"incoming", "oauth", "app_token", "config_token">>
SchemeRank(m) == CHOOSE i \in 1..Len(Schemes) : Schemes[i] = m

\* the schemes the configuration and the payload's auth part provide
Available(m) ==
  CASE m = "incoming" -> CountAtom(cfg.token, "/") = 1
    [] m = "oauth" -> Truthy(Get(fin.content.auth, "access_token"))
    [] m = "app_token" -> Truthy(Get(fin.content.auth, "application_token"))
    [] m = "config_token" -> cfg.token # <<>> /\ CountAtom(cfg.token, "/") = 0

AvailableSchemes == SelectSeq(Schemes, Available)

Fetched == fin.fn = "get_task_from_bitrix24" /\ fout # Pending

\* C17: the attempts made are the available schemes in the fixed order, one
\* attempt per scheme, up to and including the first attempt answered with a
\* task, which is the task returned; when no attempt is answered with a task
\* every available scheme has been tried and no task is returned; an empty task
\* id gives no task without any attempt.
C17_FirstSuccessInFixedOrder ==
  Fetched =>
    IF ~Truthy(fin.task) THEN fout = [attempts |-> <<>>, task |-> None]
    ELSE /\ Len(fout.attempts) <= Len(AvailableSchemes)
         /\ \A i \in 1..Len(fout.attempts) :
              /\ fout.attempts[i].method = AvailableSchemes[i]
              /\ fout.attempts[i].kind = fin.content.outs[i].kind
              /\ i < Len(fout.attempts) => fout.attempts[i].kind # "task"
              /\ \A j \in 1..(i - 1) :
                   SchemeRank(fout.attempts[j].method) < SchemeRank(fout.attempts[i].method)
         /\ IF fout.attempts # <<>> /\ fout.attempts[Len(fout.attempts)].kind = "task"
            THEN fout.task = fin.content.outs[Len(fout.attempts)].task /\ fout.task # None
            ELSE fout.task = None /\ Len(fout.attempts) = Len(AvailableSchemes)

\* three schemes are available, the first attempt fails, the second is answered
\* with a task and the third scheme is not tried though it would have answered
\* with another task
C17_Witness ==
  /\ Fetched
  /\ Len(AvailableSchemes) = 3
  /\ Len(fout.attempts) = 2
  /\ fout.attempts[1].kind \in FailKinds
  /\ fin.content.outs[3].kind = "task"
  /\ fin.content.outs[3].task # fout.task

\* every available scheme fails and no task is returned
C17_Exhausted ==
  /\ Fetched
  /\ Len(fout.attempts) = 3
  /\ \A i \in 1..3 : fout.attempts[i].kind \in FailKinds
  /\ {fout.attempts[i].kind : i \in 1..3} = FailKinds

(***************************************************************************)
(* Properties of the request parsing                                       *)
(***************************************************************************)
Parsed == fin.fn = "webhook_tasks, request parsing" /\ fout # Pending

RECURSIVE PathGet(_, _)
\* payload[k1][k2]...: the value at the path, None when the path is not there
PathGet(value, keys) ==
  IF keys = <<>> THEN value
  ELSE IF value.t # "map" \/ keys[1] \notin DOMAIN value.v THEN None
  ELSE PathGet(value.v[keys[1]], Tail(keys))

RECURSIVE Flatten(_, _)
\* the (path, leaf) pairs of a nested mapping
Flatten(value, path) ==
  IF value.t = "map"
  THEN UNION { Flatten(value.v[k], Append(path, k)) : k \in DOMAIN value.v }
  ELSE { <<path, value>> }

\* the pairs as received: the path the key names, and the value
ReceivedPairs(pairs) == { <<SplitKey(pairs[i][1]), Str(Unquote(pairs[i][2]))>> : i \in 1..Len(pairs) }

IsPrefix(a, b) == Len(a) <= Len(b) /\ SubSeq(b, 1, Len(a)) = a

\* no key names a path that another key's path goes through
Consistent(pairs) ==
  \A i, j \in 1..Len(pairs) :
    i # j => ~IsPrefix(SplitKey(pairs[i][1]), SplitKey(pairs[j][1]))

\* the payload is the nested mapping equivalent to the pairs
NestedFor(result, pairs) ==
  /\ result.exc = "none"
  /\ result.val.t = "map"
  /\ \A pr \in ReceivedPairs(pairs) : PathGet(result.val, pr[1]) = pr[2]
  /\ Flatten(result.val, <<>>) = ReceivedPairs(pairs)

\* C18: for pairs received by POST form body, raw query-string body or GET
\* parameters the payload is the equivalent nested mapping (a[b][c]=v gives
\* payload[a][b][c] = v), it does not depend on the order of the pairs, and
\* flattening it gives back the pairs.
C18_Claim ==
  Parsed /\ Consistent(fin.task.v) =>
    \A c \in Carriers :
      /\ NestedFor(fout.sent[c], fin.task.v)
      /\ fout.reversed[c] = fout.sent[c]

\* what holds: a form body whose keys are consistent is unflattened whatever the
\* order, and so is a query-string body without blank or doubly encoded values
C18_FormAndPlainQs ==
  Parsed /\ Consistent(fin.task.v) =>
    /\ NestedFor(fout.sent["form"], fin.task.v) /\ fout.reversed["form"] = fout.sent["form"]
    /\ fin.task.v \in {BracketPairs, SharedPrefixPairs} =>
         NestedFor(fout.sent["qs"], fin.task.v) /\ fout.reversed["qs"] = fout.sent["qs"]

\* GET parameters are never unflattened: the payload keeps the keys as sent
C18_GetStaysFlat ==
  Parsed => /\ fout.sent["get"].exc = "none"
            /\ \A k \in DOMAIN fout.sent["get"].val.v : fout.sent["get"].val.v[k].t = "str"

(***************************************************************************)
(* Properties of the event kind                                            *)
(***************************************************************************)
\* the event name of the payload, "" when it has none
EventName == GetD(webhook_data.v, "event", EmptyStr)

CreationEvent == EventName.t = "str" /\ Lower(EventName.v) = Lower(W_OnTaskAdd)
UpdateEvent == EventName.t = "str" /\ Lower(EventName.v) = Lower(W_OnTaskUpdate)

\* every send_task_notification call has the event type et and every message
\* posted starts with the lead line of et
SentAs(et) ==
  /\ \A i \in 1..Len(calls) :
       calls[i].fn = "send_task_notification" => calls[i].event_type = et
  /\ \A i \in 1..Len(posts) : SubSeq(posts[i].text, 1, Len(LeadLine(et))) = LeadLine(et)

\* C19: the notification of a task-creation event is sent as "new", whatever
\* the letter case of the event name; that of a task-update event and that of a
\* payload without an event name is sent as "updated".
C19_Claim ==
  Sent =>
    /\ CreationEvent => SentAs("new")
    /\ UpdateEvent \/ EventName = EmptyStr => SentAs("updated")

\* what holds: "new" exactly when the event name contains "Add" in this letter
\* case, "updated" otherwise
C19_ExactCaseOnly ==
  Sent =>
    IF EventName.t = "str" /\ Contains(EventName.v, <<"A", "d", "d">>)
    THEN SentAs("new") ELSE SentAs("updated")

\* a creation event named in capitals is sent as an update
C19_CapitalsSentAsUpdate ==
  Sent /\ EventName = Str(W_ONTASKADD) /\ SentAs("updated") /\ posts # <<>>

(***************************************************************************)
(* Properties of store reads that overlap a save                           *)
(***************************************************************************)
\* the entries of the file no command of the processes targets
UntargetedKept ==
  /\ InList(Str(S100), file.doc.leaders)
  /\ Get(file.doc.telegram_chats, S200) = Str(S555)

\* C20: no load of a command sees a file emptied by a save under way; the
\* webhook for the creator 100, a leader before and after every command, is
\* never answered "Creator not a leader"; and every well-formed file written
\* still holds the entries no command targeted.
C20_Claim ==
  /\ \A p \in Procs : ~procs[p].partial
  /\ resp.message # "Creator not a leader"
  /\ file.kind = "json" => UntargetedKept

\* what holds: while no command has begun, the request is not rejected at the
\* leader check and the file is whole
C20_QuietStore ==
  (\A p \in Procs : procs[p].pc = "idle") =>
    resp.message # "Creator not a leader" /\ file.kind = "json" /\ UntargetedKept

\* the request was rejected at the leader check while a save was under way
C20_RejectedDuringSave ==
  /\ resp.message = "Creator not a leader"
  /\ \E p \in Procs : procs[p].pc = "opened"

\* a mutation that loaded an emptied file has written back a well-formed file
\* without the untargeted entries
C20_EntriesLost ==
  /\ \E p \in Procs : Done(p) /\ procs[p].partial /\ procs[p].ret = Bool(TRUE)
  /\ \A p \in Procs : Done(p)
  /\ file.kind = "json" /\ ~UntargetedKept

(***************************************************************************)
(* Properties of lookups after store commands                              *)
(***************************************************************************)
LastCall == calls[Len(calls)]

\* the leader check of this step answers from the file as the commands run so
\* far have left it
LeaderCheckReadsFile ==
  pc = "leader" /\ pc' # "leader" =>
    /\ Len(calls') = Len(calls) + 1
    /\ calls'[Len(calls')] =
         [fn |-> "is_leader",
          ret |-> Bool(InList(Str(PyStr(Str(task_data.creator_id))), StrAll(StoredLeaders)))]

\* the chat lookup of this step answers from the file as the commands run so far
\* have left it
ChatLookupReadsFile ==
  pc = "chat" /\ pc' # "chat" =>
    /\ telegram_chat_id' = Get(StoredChats, PyStr(Str(task_data.responsible_id)))
    /\ calls'[Len(calls')] = [fn |-> "get_telegram_chat_id", ret |-> telegram_chat_id']

\* C21: every leader check and every chat lookup of a request answers from the
\* store as the commands that have returned before it starts have left it, so
\* a mutation that has returned true is seen by every lookup that starts
\* afterwards.
C21_LookupsReadCurrentStore ==
  [][LeaderCheckReadsFile /\ ChatLookupReadsFile]_vars

\* one request saw two versions of the store: its leader check found the creator
\* 100 in the leader list, then 100 was taken out of the list, then
\* add_telegram_mapping("200", "777") returned true, and its chat lookup
\* returned the new chat id 777
C21_Witness ==
  /\ nadm = 2
  /\ adm = [op |-> "add_telegram_mapping", uid |-> Str(S200), chat |-> Str(S777),
            ret |-> Bool(TRUE)]
  /\ file.kind = "json" /\ ~InList(Str(S100), StrAll(file.doc.leaders))
  /\ \E i \in 1..Len(calls) : calls[i] = [fn |-> "is_leader", ret |-> Bool(TRUE)]
  /\ LastCall = [fn |-> "get_telegram_chat_id", ret |-> Str(S777)]

\* remove_leader("100") returned true before the leader check, which then
\* rejected the request
C21_RemovalSeen ==
  /\ nadm = 1
  /\ adm = [op |-> "remove_leader", uid |-> Str(S100), chat |-> None, ret |-> Bool(TRUE)]
  /\ LastCall = [fn |-> "is_leader", ret |-> Bool(FALSE)]
  /\ resp.message = "Creator not a leader"

(***************************************************************************)
(* Properties of what a store command leaves alone                         *)
(***************************************************************************)
\* the leader list and the chat mapping a load of the file f gives
LeadersOf(f) == LoadMappings(f).leaders
ChatsOf(f) == LoadMappings(f).telegram_chats

\* the leaders other than uid, in their order
OtherLeaders(f, uid) == SelectSeq(LeadersOf(f), LAMBDA x : Str(PyStr(x)) # uid)

\* every user other than uid has the same chat id in f and g
OtherChatsSame(f, g, uid) ==
  \A k \in (DOMAIN ChatsOf(f) \cup DOMAIN ChatsOf(g)) \ {PyStr(uid)} :
    Get(ChatsOf(f), k) = Get(ChatsOf(g), k)

\* a command has run in this step
Ran(op) == nadm' = nadm + 1 /\ adm'.op = op

\* the frame of each command on the step that runs it
StoreFrame ==
  /\ Ran("add_leader") =>
       /\ ChatsOf(file') = ChatsOf(file)
       /\ OtherLeaders(file', adm'.uid) = OtherLeaders(file, adm'.uid)
       /\ IsLeader(file, adm'.uid) => adm'.ret = Bool(TRUE) /\ file' = file
  /\ Ran("remove_leader") =>
       /\ ChatsOf(file') = ChatsOf(file)
       /\ OtherLeaders(file', adm'.uid) = OtherLeaders(file, adm'.uid)
       /\ ~IsLeader(file, adm'.uid) => adm'.ret = Bool(TRUE) /\ file' = file
  /\ Ran("add_telegram_mapping") =>
       /\ LeadersOf(file') = LeadersOf(file)
       /\ OtherChatsSame(file, file', adm'.uid)
  /\ Ran("remove_telegram_mapping") =>
       /\ LeadersOf(file') = LeadersOf(file)
       /\ OtherChatsSame(file, file', adm'.uid)
       /\ PyStr(adm'.uid) \notin DOMAIN ChatsOf(file) => adm'.ret = Bool(TRUE) /\ file' = file
  /\ Ran("is_leader") \/ Ran("get_telegram_chat_id") \/ Ran("list_mappings")
       \/ Ran("get_all_leaders") => file' = file

\* C22: a store command changes only its target: add_leader and remove_leader
\* leave the chat mapping and the other leaders, in their order; the two chat
\* mapping commands leave the leader list and the other users' chat ids; adding
\* a leader already present or removing an absent leader or mapping returns
\* true and does not write the file; the lookups never write the file.
C22_Claim == [][StoreFrame]_vars

\* the leaders stored are all strings
StrLeaders(f) == \A i \in 1..Len(LeadersOf(f)) : LeadersOf(f)[i].t = "str"

\* what holds: the same frame for the commands whose save does not fail after
\* open() has emptied the file, on a file whose leaders are all strings
C22_FrameOfStrLeaders ==
  [][StrLeaders(file) /\ ~(file'.kind = "garbage" /\ file.kind # "garbage") => StoreFrame]_vars

====
